---- MODULE Spec2Model ----
(***************************************************************************)
(* Model of the video processing worker: ProcessVideoUseCase.Execute and   *)
(* the FFmpegVideoProcessor adapter it drives, with the storage, message   *)
(* and video processor ports as nondeterministic collaborators.            *)
(* Spec is one Execute call after another; LoopSpec is main's intake loop  *)
(* around Execute; ConcurrentSpec is two Execute calls sharing the local   *)
(* temporary directory; FleetSpec is two instances of main on one queue;   *)
(* DomainSpec is the ProcessResult conversions; MetricsSpec is the         *)
(* readiness flag of the MetricsServer; AdapterSpec is the StorageAdapter  *)
(* and the MessageAdapter in front of their services.                      *)
(*                                                                         *)
(* Go strings that the code only copies or concatenates are TLA+ strings.  *)
(* The video key, which filepath.Ext scans byte by byte, is a sequence of  *)
(* one-character strings.  A filesystem path is the sequence of its        *)
(* components.  An error is the sequence of the messages of its %w chain,  *)
(* outermost first; the nil error is the empty sequence.                   *)
(***************************************************************************)
EXTENDS Integers, Sequences, FiniteSets, TLC

\* ------------------------------------------------------------------ bounds
MaxStemLen == 2
MaxFrames == 2
MaxInvocations == 2

\* ------------------------------------------------------- strings and paths
RECURSIVE Str(_)
Str(s) == IF s = <<>> THEN "" ELSE Head(s) \o Str(Tail(s))

RECURSIVE SeqsUpTo(_, _)
SeqsUpTo(S, n) ==
    IF n = 0 THEN {<<>>}
    ELSE LET shorter == SeqsUpTo(S, n - 1)
         IN  shorter \cup {Append(s, c) : s \in shorter, c \in S}

IsPathSeparator(c) == c = "/"

\* filepath.Ext: the suffix beginning at the final dot in the final
\* slash-separated element of path; empty if there is no dot.
RECURSIVE ExtFrom(_, _)
ExtFrom(path, i) ==
    IF i < 1 \/ IsPathSeparator(path[i]) THEN <<>>
    ELSE IF path[i] = "." THEN SubSeq(path, i, Len(path))
    ELSE ExtFrom(path, i - 1)

Ext(path) == ExtFrom(path, Len(path))

IsPrefix(dir, p) == Len(dir) <= Len(p) /\ SubSeq(p, 1, Len(dir)) = dir

\* os.RemoveAll(dir) and os.Remove(path) on the set of existing paths
RemoveAll(fs, dir) == {p \in fs : ~IsPrefix(dir, p)}

Remove(fs, path) == fs \ {path}

\* ---------------------------------------------------------------- errors
NoError == <<>>

Errorf(msg, err) == <<msg>> \o err

New(msg) == <<msg>>

\* error.Error(): the chain joined with ": "
RECURSIVE ErrorText(_)
ErrorText(err) ==
    IF Len(err) = 0 THEN ""
    ELSE IF Len(err) = 1 THEN err[1]
    ELSE err[1] \o ": " \o ErrorText(Tail(err))

\* ---------------------------------------------------------- configuration
OutputQueueURL == "queue-out"

OutputBuckets == {"out", "in"}

Processors == {"ffmpeg", "mock"}

UseCaseTempDir == <<"tmp", "video-processor">>

FFmpegTempDir == <<"tmp", "video-processor">>

OsPid == "7"

MockZipPath == <<"tmp", "mock.zip">>

\* ---------------------------------------------------------------- inputs
ProcessIDs == {"", "p1", "p2"}

VideoBuckets == {"", "in"}

KeyStems == SeqsUpTo({"v", ".", "/"}, MaxStemLen)

KeySuffixes ==
    { <<>>,
      <<"m", "p", "4">>, <<"a", "v", "i">>, <<"m", "o", "v">>,
      <<"m", "k", "v">>, <<"w", "m", "v">>, <<"f", "l", "v">>,
      <<"w", "e", "b", "m">>,
      <<"M", "P", "4">>, <<"M", "k", "v">>, <<"w", "e", "b", "M">>,
      <<"p", "d", "f">>, <<"m", "p">>, <<"m", "p", "4", "v">> }

VideoKeys == {stem \o suffix : stem \in KeyStems, suffix \in KeySuffixes}

Requests ==
    [ProcessID : ProcessIDs, VideoBucket : VideoBuckets, VideoKey : VideoKeys]

\* ------------------------------------------------------------ domain layer
NewResult(request) ==
    [ProcessID |-> request.ProcessID, FileBucket |-> "", FileKey |-> "",
     Success |-> FALSE, Error |-> NoError]

\* ToSuccessMessage with bucket and key exchanged
ToSuccessMessage_exchanged(r) ==
    [process_id |-> r.ProcessID, file_bucket |-> r.FileKey,
     file_key |-> r.FileBucket]

ToSuccessMessage(r) ==
    [process_id |-> r.ProcessID, file_bucket |-> r.FileBucket,
     file_key |-> r.FileKey]

\* ToErrorMessage without the placeholder for a nil error
ToErrorMessage_noPlaceholder(r) ==
    [process_id |-> r.ProcessID, error_message |-> ErrorText(r.Error)]

\* ToErrorMessage with the nil test inverted
ToErrorMessage_inverted(r) ==
    [process_id |-> r.ProcessID,
     error_message |-> IF r.Error = NoError THEN ErrorText(r.Error)
                       ELSE "unknown error"]

ToErrorMessage(r) ==
    [process_id |-> r.ProcessID,
     error_message |-> IF r.Error # NoError THEN ErrorText(r.Error)
                       ELSE "unknown error"]

\* json.Marshal of a map with string keys: the members in sorted key order
JSONKeyOrder == <<"error_message", "file_bucket", "file_key", "process_id">>

Marshal(m) ==
    LET present == SelectSeq(JSONKeyOrder, LAMBDA k : k \in DOMAIN m)
    IN  [i \in 1..Len(present) |-> <<present[i], m[present[i]]>>]

\* -------------------------------------------------------------- validation
validExts ==
    << <<".", "m", "p", "4">>, <<".", "a", "v", "i">>, <<".", "m", "o", "v">>,
       <<".", "m", "k", "v">>, <<".", "w", "m", "v">>, <<".", "f", "l", "v">>,
       <<".", "w", "e", "b", "m">> >>

HasSuffix(s, t) ==
    Len(t) <= Len(s) /\ SubSeq(s, Len(s) - Len(t) + 1, Len(s)) = t

\* isValidVideoFile matching the end of the name instead of filepath.Ext
isValidVideoFile_suffix(filename) ==
    \E i \in 1..Len(validExts) : HasSuffix(filename, Tail(validExts[i]))

isValidVideoFile(filename) ==
    \E i \in 1..Len(validExts) : Ext(filename) = validExts[i]

\* validateRequest without the video_bucket check
validateRequest_noBucketCheck(request) ==
    IF request.ProcessID = "" THEN New("process_id is required")
    ELSE IF request.VideoKey = <<>> THEN New("video_key is required")
    ELSE IF ~isValidVideoFile(request.VideoKey)
         THEN New("invalid video file format. Supported: mp4, avi, mov, mkv, wmv, flv, webm")
    ELSE NoError

\* validateRequest testing video_key before process_id and video_bucket
validateRequest_keyFirst(request) ==
    IF request.VideoKey = <<>> THEN New("video_key is required")
    ELSE IF request.ProcessID = "" THEN New("process_id is required")
    ELSE IF request.VideoBucket = "" THEN New("video_bucket is required")
    ELSE IF ~isValidVideoFile(request.VideoKey)
         THEN New("invalid video file format. Supported: mp4, avi, mov, mkv, wmv, flv, webm")
    ELSE NoError

validateRequest(request) ==
    IF request.ProcessID = "" THEN New("process_id is required")
    ELSE IF request.VideoBucket = "" THEN New("video_bucket is required")
    ELSE IF request.VideoKey = <<>> THEN New("video_key is required")
    ELSE IF ~isValidVideoFile(request.VideoKey)
         THEN New("invalid video file format. Supported: mp4, avi, mov, mkv, wmv, flv, webm")
    ELSE NoError

\* ------------------------------------------------------------------- state
VARIABLES
    outputBucket,   \* uc.outputBucket
    processor,      \* which VideoProcessorPort implementation is wired in
    request,        \* the VideoProcess handed to Execute
    pc,             \* position inside Execute / ProcessVideo
    result,         \* the ProcessResult being filled in
    videoPath,      \* local video file of this invocation
    zipPath,        \* archive path returned by the processor
    frameCount,     \* frame count returned by the processor
    pvErr,          \* error returned by the processor
    frames,         \* frame files listed by the adapter's Glob
    defers,         \* paths of the deferred os.Remove calls of Execute
    files,          \* paths that exist on the local filesystem
    calls,          \* port calls of this invocation, in order
    returned,       \* the error Execute returned (meaningful at pc = "done")
    invocations     \* number of Execute invocations started

\* the intake loop of main around Execute
VARIABLES
    loop,           \* position inside main's processing loop / processMessage
    sigChan,        \* number of signals buffered in sigChan (capacity 1)
    running,        \* main's running flag
    queue,          \* the input queue: body and visibility of each message
    batch,          \* res.Messages still to be processed
    msg,            \* the message processMessage is handling
    events,         \* what the loop and its environment did, in order
    polls,          \* number of ReceiveMessage calls issued
    signals         \* number of shutdown signals delivered to the process

intake == <<loop, sigChan, running, queue, batch, msg, events, polls, signals>>

\* several Execute calls sharing the temporary directory of one process
VARIABLES
    workers,        \* per concurrent Execute call: its request and position
    touched         \* which call wrote, read or removed which local path

concurrent == <<workers, touched>>

\* the domain layer on its own
VARIABLE message    \* the map a ProcessResult was last converted to

\* several instances of main polling one input queue
VARIABLES
    instance,       \* per instance: position in its loop, message in hand
    shared,         \* the shared input queue: body and lease of each message
    history         \* per message: how often it was received, executed, ...

fleet == <<instance, shared, history>>

\* the MetricsServer and the goroutines that use it
VARIABLES
    ready,          \* MetricsServer.ready
    mu,             \* MetricsServer.mu: the writer and the readers holding it
    threads,        \* per goroutine: position, argument or local copy, reply
    stores          \* the values stored into ready, in order, initial first

metrics == <<ready, mu, threads, stores>>

\* the StorageAdapter and the MessageAdapter in front of their services
VARIABLE adapter    \* the adapter call in progress and the service calls made

\* no adapter call is observed
NoAdapter ==
    [pc |-> "none", method |-> "", args |-> <<>>, service |-> <<>>,
     ret |-> <<>>, count |-> 0]

vars == <<outputBucket, processor, request, pc, result, videoPath, zipPath,
          frameCount, pvErr, frames, defers, files, calls, returned,
          invocations, intake, concurrent, message, fleet, metrics, adapter>>

\* Execute called directly, without main's loop (as the use case tests do)
NoIntake ==
    /\ loop = "none"
    /\ sigChan = 0
    /\ running = TRUE
    /\ queue = <<>>
    /\ batch = <<>>
    /\ msg = 0
    /\ events = <<>>
    /\ polls = 0
    /\ signals = 0

\* a single Execute call at a time (main's loop, the use case tests)
NoConcurrent ==
    /\ workers = <<>>
    /\ touched = {}

\* no conversion made yet
NoMessage == [process_id |-> ""]

\* NewMetricsServer: ready false, mutex free; no goroutine uses the server
NoMetrics ==
    /\ ready = FALSE
    /\ mu = [writer |-> "", readers |-> {}]
    /\ threads = <<>>
    /\ stores = <<FALSE>>

\* a single instance of main
NoFleet ==
    /\ instance = <<>>
    /\ shared = <<>>
    /\ history = <<>>

config == <<outputBucket, processor>>

Init ==
    /\ outputBucket \in OutputBuckets
    /\ processor \in Processors
    /\ request \in Requests
    /\ pc = "start"
    /\ result = NewResult(request)
    /\ videoPath = <<>>
    /\ zipPath = <<>>
    /\ frameCount = 0
    /\ pvErr = NoError
    /\ frames = {}
    /\ defers = <<>>
    /\ files = {}
    /\ calls = <<>>
    /\ returned = NoError
    /\ invocations = 1
    /\ NoIntake
    /\ NoConcurrent
    /\ message = NoMessage
    /\ NoFleet
    /\ NoMetrics
    /\ adapter = NoAdapter


\* ------------------------------------------------------- derived locations
\* downloadVideo: tempDir/video_<process_id><ext>
TempVideoFile(req) ==
    UseCaseTempDir \o <<"video_" \o req.ProcessID \o Str(Ext(req.VideoKey))>>

\* OutputKey with the key derived from the source key
OutputKey_fromVideoKey(req) ==
    "processed/frames_" \o Str(req.VideoKey) \o ".zip"

\* Execute: outputKey := "processed/frames_<process_id>.zip"
OutputKey(req) == "processed/frames_" \o req.ProcessID \o ".zip"

\* ProcessVideo: tempDir/process_<os pid>
ProcessDir == FFmpegTempDir \o <<"process_" \o OsPid>>

\* ffmpeg's output pattern frame_%04d.png, numbered from 1
FrameFiles(n) == {ProcessDir \o <<"frame_000" \o ToString(i) \o ".png">> : i \in 1..n}

\* ProcessVideo: tempDir/frames_<os pid>.zip
ArchiveFile == FFmpegTempDir \o <<"frames_" \o OsPid \o ".zip">>

ExecuteLocals == <<videoPath, zipPath, frameCount, pvErr, frames, defers>>

\* ------------------------------------------------------------------ Execute
\* Execute, lines 43-51: build the result and validate the request
Validate ==
    /\ pc = "start"
    /\ LET err == validateRequest(request)
       IN  IF err # NoError
           THEN /\ result' = [result EXCEPT !.Error = err]
                /\ pc' = "send_error"
           ELSE /\ pc' = "download"
                /\ UNCHANGED result
    /\ UNCHANGED <<intake, concurrent, message, fleet, metrics, adapter, config, request, ExecuteLocals, files, calls, returned,
                   invocations>>

DownloadOutcomes == {"getErr", "mkdirErr", "createErr", "copyErr", "ok"}

\* the error downloadVideo returns for each outcome
downloadVideoErr(outcome) ==
    CASE outcome = "getErr" ->
             Errorf("failed to get object from storage", New("storage error"))
      [] outcome = "mkdirErr" ->
             Errorf("failed to create temp directory", New("mkdir failed"))
      [] outcome = "createErr" ->
             Errorf("failed to create temp file", New("create failed"))
      [] outcome = "copyErr" ->
             Errorf("failed to save video", New("read error"))
      [] OTHER -> NoError

\* the filesystem after downloadVideo
downloadVideoFiles(fs, tempFile, outcome) ==
    CASE outcome = "copyErr" -> Remove(fs \cup {tempFile}, tempFile)
      [] outcome = "ok" -> fs \cup {tempFile}
      [] OTHER -> fs

\* Execute, lines 53-58, with downloadVideo inlined
downloadVideo ==
    /\ pc = "download"
    /\ \E outcome \in DownloadOutcomes :
         LET tempFile == TempVideoFile(request)
             err == downloadVideoErr(outcome)
         IN  /\ calls' = Append(calls,
                    [op |-> "GetObject", bucket |-> request.VideoBucket,
                     key |-> request.VideoKey, ok |-> outcome # "getErr"])
             /\ files' = downloadVideoFiles(files, tempFile, outcome)
             /\ IF err # NoError
                THEN /\ result' = [result EXCEPT
                            !.Error = Errorf("failed to download video", err)]
                     /\ pc' = "send_error"
                     /\ UNCHANGED <<videoPath, defers>>
                ELSE /\ videoPath' = tempFile
                     /\ defers' = Append(defers, tempFile)
                     /\ pc' = "process"
                     /\ UNCHANGED result
    /\ UNCHANGED <<intake, concurrent, message, fleet, metrics, adapter, config, request, zipPath, frameCount, pvErr, frames,
                   returned, invocations>>

\* ----------------------------------------------------- FFmpegVideoProcessor
\* ProcessVideo without the test for an empty frame list
noFramesExtracted_never(n) == FALSE

\* ProcessVideo, line 55: len(frames) == 0
noFramesExtracted(n) == n = 0

FFmpegOutcomes == {"mkdirErr", "ffmpegErr", "ok"}

\* ProcessVideo, lines 30-57: process directory, ffmpeg run, frame listing
ProcessVideo ==
    /\ pc = "process"
    /\ processor = "ffmpeg"
    /\ calls' = Append(calls, [op |-> "ProcessVideo", videoPath |-> videoPath])
    /\ \E outcome \in FFmpegOutcomes, n \in 0..MaxFrames :
         CASE outcome = "mkdirErr" ->
                  /\ n = 0
                  /\ pvErr' = Errorf("failed to create process directory",
                                     New("mkdir failed"))
                  /\ pc' = "process_result"
                  /\ UNCHANGED <<files, frames>>
           [] outcome = "ffmpegErr" ->
                  /\ files' = files \cup {ProcessDir} \cup FrameFiles(n)
                  /\ pvErr' = Errorf("ffmpeg error", New("exit status 1"))
                  /\ pc' = "process_return"
                  /\ UNCHANGED frames
           [] outcome = "ok" ->
                  /\ files' = files \cup {ProcessDir} \cup FrameFiles(n)
                  /\ IF noFramesExtracted(n)
                     THEN /\ pvErr' = New("no frames extracted from video")
                          /\ pc' = "process_return"
                          /\ UNCHANGED frames
                     ELSE /\ frames' = FrameFiles(n)
                          /\ pc' = "create_zip"
                          /\ UNCHANGED pvErr
    /\ UNCHANGED <<intake, concurrent, message, fleet, metrics, adapter, config, request, result, videoPath, zipPath, frameCount,
                   defers, returned, invocations>>

ZipOutcomes == {"createErr", "addErr", "ok"}

\* the filesystem after createZipFile: os.Create makes the archive before
\* any frame is added
createZipFiles(fs, outcome) ==
    IF outcome = "createErr" THEN fs ELSE fs \cup {ArchiveFile}

\* ProcessVideo, lines 59-64, with createZipFile (lines 67-84) inlined
createZipFile ==
    /\ pc = "create_zip"
    /\ \E outcome \in ZipOutcomes :
         /\ files' = createZipFiles(files, outcome)
         /\ IF outcome = "ok"
            THEN /\ zipPath' = ArchiveFile
                 /\ frameCount' = Cardinality(frames)
                 /\ UNCHANGED pvErr
            ELSE /\ pvErr' = Errorf("failed to create zip",
                                    New(IF outcome = "createErr"
                                        THEN "create failed"
                                        ELSE "add file failed"))
                 /\ UNCHANGED <<zipPath, frameCount>>
    /\ pc' = "process_return"
    /\ UNCHANGED <<intake, concurrent, message, fleet, metrics, adapter, config, request, result, videoPath, frames, defers, calls,
                   returned, invocations>>

\* ProcessVideo, line 35: the deferred os.RemoveAll(processDir)
ProcessVideoReturn ==
    /\ pc = "process_return"
    /\ files' = RemoveAll(files, ProcessDir)
    /\ frames' = {}
    /\ pc' = "process_result"
    /\ UNCHANGED <<intake, concurrent, message, fleet, metrics, adapter, config, request, result, videoPath, zipPath, frameCount,
                   pvErr, defers, calls, returned, invocations>>

\* mockVideoProcessor of the use case tests: any result the port allows
MockProcessVideo ==
    /\ pc = "process"
    /\ processor = "mock"
    /\ calls' = Append(calls, [op |-> "ProcessVideo", videoPath |-> videoPath])
    /\ \/ /\ pvErr' = New("processing failed")
          /\ UNCHANGED <<zipPath, frameCount, files>>
       \/ \E n \in 0..MaxFrames, created \in BOOLEAN :
            /\ zipPath' = MockZipPath
            /\ frameCount' = n
            /\ files' = IF created THEN files \cup {MockZipPath} ELSE files
            /\ UNCHANGED pvErr
    /\ pc' = "process_result"
    /\ UNCHANGED <<intake, concurrent, message, fleet, metrics, adapter, config, request, result, videoPath, frames, defers,
                   returned, invocations>>

\* whether Execute goes on to publish after the processor returned
processSucceeded(err, count) == err = NoError

\* afterProcess going straight to the source delete
afterProcess_skipUpload == "delete"

\* where Execute goes after a successful ProcessVideo
afterProcess == "upload"

\* Execute, lines 60-67
AfterProcessVideo ==
    /\ pc = "process_result"
    /\ IF processSucceeded(pvErr, frameCount)
       THEN /\ defers' = Append(defers, zipPath)
            /\ pc' = afterProcess
            /\ UNCHANGED result
       ELSE /\ result' = [result EXCEPT
                   !.Error = Errorf("failed to process video", pvErr)]
            /\ pc' = "send_error"
            /\ UNCHANGED defers
    /\ UNCHANGED <<intake, concurrent, message, fleet, metrics, adapter, config, request, videoPath, zipPath, frameCount, pvErr,
                   frames, files, calls, returned, invocations>>

UploadOutcomes == {"openErr", "putErr", "ok"}

uploadZipErr(outcome) ==
    CASE outcome = "openErr" ->
             Errorf("failed to open zip file", New("open failed"))
      [] outcome = "putErr" ->
             Errorf("failed to put object to storage", New("upload failed"))
      [] OTHER -> NoError

\* afterUpload returning without a notification on error
afterUpload_noNotify(err) == IF err # NoError THEN "return" ELSE "delete"

\* afterUpload ignoring the upload error
afterUpload_ignoreErr(err) == "delete"

\* afterUpload trying the upload again when it failed
afterUpload_retry(err) == IF err # NoError THEN "upload" ELSE "delete"

\* where Execute goes after uploadZip
afterUpload(err) == IF err # NoError THEN "send_error" ELSE "delete"

\* Execute, lines 69-73, with uploadZip (lines 137-153) inlined
uploadZip ==
    /\ pc = "upload"
    /\ \E outcome \in UploadOutcomes :
         LET err == uploadZipErr(outcome)
         IN  /\ outcome # "openErr" => zipPath \in files
             /\ calls' = IF outcome = "openErr" THEN calls
                         ELSE Append(calls,
                              [op |-> "PutObject", bucket |-> outputBucket,
                               key |-> OutputKey(request),
                               ok |-> outcome = "ok"])
             /\ result' = IF err # NoError
                          THEN [result EXCEPT
                                !.Error = Errorf("failed to upload zip", err)]
                          ELSE result
             /\ pc' = afterUpload(err)
    /\ UNCHANGED <<intake, concurrent, message, fleet, metrics, adapter, config, request, ExecuteLocals, files, returned,
                   invocations>>

\* afterDelete treating a delete error as fatal
afterDelete_fatal(ok) == IF ok THEN "send_success" ELSE "send_error"

\* where Execute goes after deleteOriginalVideo: its error is logged only
afterDelete(ok) == "send_success"

\* deleteOriginalVideo deleting from the output bucket
deleteTarget_outputBucket(req) == [bucket |-> outputBucket, key |-> req.VideoKey]

\* deleteOriginalVideo: the object DeleteObject is called with
deleteTarget(req) == [bucket |-> req.VideoBucket, key |-> req.VideoKey]

\* Execute, lines 75-81, with deleteOriginalVideo (lines 155-165) inlined
deleteOriginalVideo ==
    /\ pc = "delete"
    /\ \E ok \in BOOLEAN :
         /\ calls' = Append(calls,
                [op |-> "DeleteObject", bucket |-> deleteTarget(request).bucket,
                 key |-> deleteTarget(request).key, ok |-> ok])
         /\ pc' = afterDelete(ok)
    /\ result' = [result EXCEPT !.Success = TRUE,
                                !.FileBucket = outputBucket,
                                !.FileKey = OutputKey(request)]
    /\ UNCHANGED <<intake, concurrent, message, fleet, metrics, adapter, config, request, ExecuteLocals, files, returned,
                   invocations>>

\* Execute, line 83, with sendSuccessMessage (lines 167-183) inlined.
\* json.Marshal of a map of strings cannot fail.
sendSuccessMessage ==
    /\ pc = "send_success"
    /\ \E ok \in BOOLEAN :
         /\ calls' = Append(calls,
                [op |-> "SendMessage", queueURL |-> OutputQueueURL,
                 body |-> Marshal(ToSuccessMessage(result)), ok |-> ok])
         /\ returned' = IF ok THEN NoError
                        ELSE Errorf("failed to send success message",
                                    New("send message failed"))
    /\ pc' = "return"
    /\ UNCHANGED <<intake, concurrent, message, fleet, metrics, adapter, config, request, result, ExecuteLocals, files,
                   invocations>>

\* sendErrorMessage returning nil in every case
sendErrorResult_nilAlways(ok, r) == NoError

\* sendErrorMessage returning the outcome's error even when the send failed
sendErrorResult_swallowSendError(ok, r) == r.Error

\* sendErrorMessage returning nil once the failure notification is sent
sendErrorResult_nilWhenSent(ok, r) ==
    IF ok THEN NoError
    ELSE Errorf("failed to send error message", New("send message failed"))

\* what sendErrorMessage returns
sendErrorResult(ok, r) ==
    IF ok THEN r.Error
    ELSE Errorf("failed to send error message", New("send message failed"))

\* the error paths of Execute, with sendErrorMessage (lines 185-203) inlined
sendErrorMessage ==
    /\ pc = "send_error"
    /\ \E ok \in BOOLEAN :
         /\ calls' = Append(calls,
                [op |-> "SendMessage", queueURL |-> OutputQueueURL,
                 body |-> Marshal(ToErrorMessage(result)), ok |-> ok])
         /\ returned' = sendErrorResult(ok, result)
    /\ pc' = "return"
    /\ UNCHANGED <<intake, concurrent, message, fleet, metrics, adapter, config, request, result, ExecuteLocals, files,
                   invocations>>

\* the deferred os.Remove calls of Execute (lines 58 and 65), last first
RECURSIVE RunDefers(_, _)
RunDefers(fs, ds) ==
    IF ds = <<>> THEN fs
    ELSE RunDefers(Remove(fs, ds[Len(ds)]), SubSeq(ds, 1, Len(ds) - 1))

\* Execute returns: its defers run
Return ==
    /\ pc = "return"
    /\ files' = RunDefers(files, defers)
    /\ defers' = <<>>
    /\ pc' = "done"
    /\ UNCHANGED <<intake, concurrent, message, fleet, metrics, adapter, config, request, result, videoPath, zipPath, frameCount,
                   pvErr, frames, calls, returned, invocations>>

IdleRequest == [ProcessID |-> "", VideoBucket |-> "", VideoKey |-> <<>>]

\* the request and the locals of a finished Execute are discarded; the
\* filesystem stays as Execute left it
Discard ==
    /\ pc = "done"
    /\ invocations < MaxInvocations
    /\ request' = IdleRequest
    /\ result' = NewResult(IdleRequest)
    /\ videoPath' = <<>>
    /\ zipPath' = <<>>
    /\ frameCount' = 0
    /\ pvErr' = NoError
    /\ calls' = <<>>
    /\ returned' = NoError
    /\ pc' = "idle"
    /\ UNCHANGED <<intake, concurrent, message, fleet, metrics, adapter, config, frames, defers, files, invocations>>

\* the caller invokes Execute again with another request
NextInvocation ==
    /\ pc = "idle"
    /\ request' \in Requests
    /\ result' = NewResult(request')
    /\ pc' = "start"
    /\ invocations' = invocations + 1
    /\ UNCHANGED <<intake, concurrent, message, fleet, metrics, adapter, config, ExecuteLocals, files, calls, returned>>

Next ==
    \/ Validate
    \/ downloadVideo
    \/ ProcessVideo
    \/ createZipFile
    \/ ProcessVideoReturn
    \/ MockProcessVideo
    \/ AfterProcessVideo
    \/ uploadZip
    \/ deleteOriginalVideo
    \/ sendSuccessMessage
    \/ sendErrorMessage
    \/ Return
    \/ Discard
    \/ NextInvocation

Spec == Init /\ [][Next]_vars


\* ------------------------------------------------------------- intake loop
MaxPolls == 2
MaxSignals == 1
MaxMessages == 2

\* ReceiveMessageInput.MaxNumberOfMessages with a larger batch
MaxNumberOfMessages_two == 1 + 1

\* ReceiveMessageInput.MaxNumberOfMessages
MaxNumberOfMessages == 1

\* make(chan os.Signal, 1)
SigChanCap == 1

\* ctx := context.Background(): the context handed to ReceiveMessage, to
\* Execute and through it to every port call has no cancel function and no
\* deadline, so its Done channel is never closed
CtxDone == FALSE

\* a JSON member of the message body: its type and its value
JString(v) == [t |-> "string", v |-> v]

JNumber(v) == [t |-> "number", v |-> v]

JAbsent(zero) == [t |-> "absent", v |-> zero]

InvalidBody ==
    [kind |-> "invalid",
     fields |-> [process_id |-> JAbsent(""), video_bucket |-> JAbsent(""),
                 video_key |-> JAbsent(<<>>)]]

NullBody == [InvalidBody EXCEPT !.kind = "null"]

ObjectBody(id, bucket, key) ==
    [kind |-> "object",
     fields |-> [process_id |-> id, video_bucket |-> bucket, video_key |-> key]]

LoopBodies ==
    { InvalidBody,
      NullBody,
      ObjectBody(JString("p1"), JAbsent(""), JString(<<"v", ".", "m", "p", "4">>)),
      ObjectBody(JString("p1"), JString("in"), JString(<<"v", ".", "m", "p", "4">>)),
      ObjectBody(JNumber("7"), JString("in"), JString(<<"v", ".", "m", "p", "4">>)) }

\* the value json.Unmarshal stores in a string field of the request struct
StringField(body, name, zero) ==
    IF body.kind = "object" /\ body.fields[name].t = "string"
    THEN body.fields[name].v
    ELSE zero

\* json.Unmarshal of the body into the request struct: text that is not
\* JSON and a member of the wrong type are errors; null and absent members
\* leave the zero value
Unmarshal(body) ==
    [err |-> IF body.kind = "invalid"
             THEN New("invalid character looking for beginning of value")
             ELSE IF body.kind = "object"
                     /\ \E name \in DOMAIN body.fields :
                            body.fields[name].t = "number"
             THEN New("json: cannot unmarshal number into Go struct field of type string")
             ELSE NoError,
     request |-> [ProcessID |-> StringField(body, "process_id", ""),
                  VideoBucket |-> StringField(body, "video_bucket", ""),
                  VideoKey |-> StringField(body, "video_key", <<>>)]]

MessageIds == 1..MaxMessages

\* the messages a ReceiveMessage can return: those not deleted (the
\* visibility lease of one received earlier may have run out)
Receivable == {id \in MessageIds : queue[id].state # "deleted"}

RECURSIVE SortedSeq(_)
SortedSeq(S) ==
    IF S = {} THEN <<>>
    ELSE LET least == CHOOSE x \in S : \A y \in S : x <= y
         IN  <<least>> \o SortedSeq(S \ {least})

Event(ev, id, ok, n) == [ev |-> ev, id |-> id, ok |-> ok, n |-> n]

LoopInit ==
    /\ outputBucket = "out"
    /\ processor = "ffmpeg"
    /\ request = IdleRequest
    /\ pc = "idle"
    /\ result = NewResult(IdleRequest)
    /\ videoPath = <<>>
    /\ zipPath = <<>>
    /\ frameCount = 0
    /\ pvErr = NoError
    /\ frames = {}
    /\ defers = <<>>
    /\ files = {}
    /\ calls = <<>>
    /\ returned = NoError
    /\ invocations = 0
    /\ loop = "select"
    /\ sigChan = 0
    /\ running = TRUE
    /\ queue \in [MessageIds -> [body : LoopBodies, state : {"visible"}]]
    /\ batch = <<>>
    /\ msg = 0
    /\ events = <<>>
    /\ polls = 0
    /\ signals = 0
    /\ NoConcurrent
    /\ message = NoMessage
    /\ NoFleet
    /\ NoMetrics
    /\ adapter = NoAdapter

ExecuteState == <<request, pc, result, ExecuteLocals, files, calls, returned,
                  invocations>>

\* the operating system delivers a shutdown signal: signal.Notify forwards
\* it to sigChan without blocking, dropping it when the buffer is full
Signal ==
    /\ loop # "stopped"
    /\ signals < MaxSignals
    /\ signals' = signals + 1
    /\ sigChan' = IF sigChan < SigChanCap THEN sigChan + 1 ELSE sigChan
    /\ events' = Append(events, Event("signal", 0, TRUE, 0))
    /\ UNCHANGED <<concurrent, message, fleet, metrics, adapter, config, ExecuteState, loop, running, queue, batch, msg,
                   polls>>

\* the select never taking the signal case
shutdownPending_never(ch) == FALSE

\* whether the select of the loop takes the sigChan case
shutdownPending(ch) == ch > 0

\* main, lines 105-112: the non-blocking check of sigChan at the loop top
SelectSignal ==
    /\ loop = "select"
    /\ IF shutdownPending(sigChan)
       THEN /\ sigChan' = sigChan - 1
            /\ running' = FALSE
            /\ loop' = "stopped"
            /\ events' = Append(events, Event("shutdown", 0, TRUE, 0))
       ELSE /\ loop' = "receive"
            /\ UNCHANGED <<sigChan, running, events>>
    /\ UNCHANGED <<concurrent, message, fleet, metrics, adapter, config, ExecuteState, queue, batch, msg, polls, signals>>

\* the loop leaving on a receive error
afterReceiveError_exit == "stopped"

\* where the loop goes when ReceiveMessage returned an error
afterReceiveError == "sleep"

\* main, lines 114-132: ReceiveMessage and the start of the range over
\* res.Messages
ReceiveMessage ==
    /\ loop = "receive"
    /\ polls < MaxPolls
    /\ polls' = polls + 1
    /\ \/ /\ events' = Append(events, Event("receive", 0, FALSE, 0))
          /\ loop' = afterReceiveError
          /\ UNCHANGED <<queue, batch, msg>>
       \/ \E got \in SUBSET Receivable :
            /\ Cardinality(got) <= MaxNumberOfMessages
            /\ LET messages == SortedSeq(got)
               IN  /\ queue' = [id \in MessageIds |->
                                   IF id \in got
                                   THEN [queue[id] EXCEPT !.state = "inflight"]
                                   ELSE queue[id]]
                   /\ events' = Append(events,
                          Event("receive",
                                IF got = {} THEN 0 ELSE Head(messages),
                                TRUE, Len(messages)))
                   /\ IF messages = <<>>
                      THEN /\ loop' = "select"
                           /\ UNCHANGED <<batch, msg>>
                      ELSE /\ msg' = Head(messages)
                           /\ batch' = Tail(messages)
                           /\ loop' = "decode"
    /\ UNCHANGED <<concurrent, message, fleet, metrics, adapter, config, ExecuteState, sigChan, running, signals>>

\* main, lines 125-126: time.Sleep(5 * time.Second); continue
Sleep ==
    /\ loop = "sleep"
    /\ events' = Append(events, Event("sleep", 0, TRUE, 0))
    /\ loop' = "select"
    /\ UNCHANGED <<concurrent, message, fleet, metrics, adapter, config, ExecuteState, sigChan, running, queue, batch, msg,
                   polls, signals>>

\* processMessage deleting the message without calling Execute
afterDecode_deleteFirst(err) == "ack"

\* processMessage calling Execute whatever Unmarshal returned
afterDecode_dispatchAlways(err) == "dispatching"

\* where processMessage goes after json.Unmarshal
afterDecode(err) == IF err # NoError THEN "ack" ELSE "dispatching"

\* processMessage, lines 179-212: parse the body and call Execute
Decode ==
    /\ loop = "decode"
    /\ LET parsed == Unmarshal(queue[msg].body)
           next == afterDecode(parsed.err)
       IN  /\ loop' = next
           /\ IF next = "dispatching"
              THEN /\ request' = parsed.request
                   /\ result' = NewResult(parsed.request)
                   /\ pc' = "start"
                   /\ events' = events \o
                        << Event("decode", msg, parsed.err = NoError, 0),
                           Event("execute_start", msg, TRUE, 0) >>
              ELSE /\ events' = Append(events,
                          Event("decode", msg, parsed.err = NoError, 0))
                   /\ UNCHANGED <<request, result, pc>>
    /\ UNCHANGED <<concurrent, message, fleet, metrics, adapter, config, ExecuteLocals, files, calls, returned, invocations,
                   sigChan, running, queue, batch, msg, polls, signals>>

\* processMessage keeping the message when the success notification
\* could not be sent
afterExecute_keepOnSendFailure(err, ch) ==
    IF err # NoError /\ Head(err) = "failed to send success message"
    THEN "select" ELSE "ack"

\* processMessage leaving without the delete when a signal is pending
afterExecute_exitOnSignal(err, ch) == IF ch > 0 THEN "stopped" ELSE "ack"

\* processMessage keeping the message when Execute returned an error
afterExecute_keepOnError(err, ch) == IF err # NoError THEN "select" ELSE "ack"

\* where processMessage goes when Execute has returned
afterExecute(err, ch) == "ack"

\* processMessage, line 212: Execute returns to processMessage
ExecuteReturn ==
    /\ loop = "dispatching"
    /\ pc = "done"
    /\ events' = Append(events,
           Event("execute_return", msg, returned = NoError,
                 Len(SelectSeq(calls, LAMBDA c : c.op = "SendMessage"))))
    /\ loop' = afterExecute(returned, sigChan)
    /\ UNCHANGED <<concurrent, message, fleet, metrics, adapter, config, ExecuteState, sigChan, running, queue, batch, msg,
                   polls, signals>>

\* processMessage reporting a failed delete as its own error
processMessageResult_deleteError(err, deleted) ==
    IF deleted THEN err ELSE New("failed to delete message")

\* what processMessage returns to the loop: the parse error or the error of
\* Execute; deleteMessage returns nothing
processMessageResult(err, deleted) == err

\* processMessage, lines 193 and 215, with deleteMessage (lines 220-238)
\* inlined, and the return to the range over res.Messages (lines 132-139)
\* the event's n is 1 when the loop records the message as processed
\* successfully (processMessage returned nil) and 0 otherwise
DeleteMessage ==
    /\ loop = "ack"
    /\ \E ok \in BOOLEAN :
         /\ queue' = IF ok THEN [queue EXCEPT ![msg].state = "deleted"]
                     ELSE queue
         /\ LET err == processMessageResult(
                           IF pc = "done" THEN returned
                           ELSE Unmarshal(queue[msg].body).err, ok)
            IN  events' = Append(events,
                    Event("delete", msg, ok, IF err = NoError THEN 1 ELSE 0))
    /\ request' = IdleRequest
    /\ result' = NewResult(IdleRequest)
    /\ videoPath' = <<>>
    /\ zipPath' = <<>>
    /\ frameCount' = 0
    /\ pvErr' = NoError
    /\ calls' = <<>>
    /\ returned' = NoError
    /\ pc' = "idle"
    /\ IF batch # <<>>
       THEN /\ msg' = Head(batch)
            /\ batch' = Tail(batch)
            /\ loop' = "decode"
       ELSE /\ msg' = 0
            /\ loop' = "select"
            /\ UNCHANGED batch
    /\ UNCHANGED <<concurrent, message, fleet, metrics, adapter, config, frames, defers, files, invocations, sigChan,
                   running, polls, signals>>

LoopNext ==
    \/ Signal
    \/ SelectSignal
    \/ ReceiveMessage
    \/ Sleep
    \/ Decode
    \/ ExecuteReturn
    \/ DeleteMessage
    \/ Validate
    \/ downloadVideo
    \/ ProcessVideo
    \/ createZipFile
    \/ ProcessVideoReturn
    \/ AfterProcessVideo
    \/ uploadZip
    \/ deleteOriginalVideo
    \/ sendSuccessMessage
    \/ sendErrorMessage
    \/ Return

LoopSpec == LoopInit /\ [][LoopNext]_vars

\* the steps of the loop goroutine itself: everything but the delivery of
\* a signal
LoopStep ==
    \/ SelectSignal
    \/ ReceiveMessage
    \/ Sleep
    \/ Decode
    \/ ExecuteReturn
    \/ DeleteMessage
    \/ Validate
    \/ downloadVideo
    \/ ProcessVideo
    \/ createZipFile
    \/ ProcessVideoReturn
    \/ AfterProcessVideo
    \/ uploadZip
    \/ deleteOriginalVideo
    \/ sendSuccessMessage
    \/ sendErrorMessage
    \/ Return

\* the loop goroutine keeps being scheduled, and every call it makes
\* (receive, sleep, the port calls of Execute, delete) returns
LoopFairSpec == LoopSpec /\ WF_vars(LoopStep)

\* ------------------------------------------ concurrent calls of Execute
\* Two calls of Execute on the same use case and the same FFmpeg adapter,
\* in one operating system process, seen through the local files they
\* touch.  The port calls that touch no local file are left out.
Workers == {"a", "b"}

\* valid requests for the concurrent calls
ConcurrentRequests ==
    [ProcessID : {"p1", "p2"}, VideoBucket : {"in"},
     VideoKey : {<<"v", ".", "m", "p", "4">>, <<"v", ".", "a", "v", "i">>}]

Touch(w, how, paths) == {[w |-> w, how |-> how, path |-> p] : p \in paths}

\* filepath.Glob(processDir/*.png): the frame files that exist
Glob(fs) == {p \in fs : IsPrefix(ProcessDir, p) /\ p # ProcessDir}

ConcurrentInit ==
    /\ outputBucket = "out"
    /\ processor = "ffmpeg"
    /\ request = IdleRequest
    /\ pc = "idle"
    /\ result = NewResult(IdleRequest)
    /\ videoPath = <<>>
    /\ zipPath = <<>>
    /\ frameCount = 0
    /\ pvErr = NoError
    /\ frames = {}
    /\ defers = <<>>
    /\ files = {}
    /\ calls = <<>>
    /\ returned = NoError
    /\ invocations = 0
    /\ NoIntake
    /\ workers \in {f \in [Workers -> [pc : {"download"},
                                       req : ConcurrentRequests,
                                       frames : {{}},
                                       defers : {<<>>}]] :
                      \A v, w \in Workers :
                          v # w => f[v].req.ProcessID # f[w].req.ProcessID}
    /\ touched = {}
    /\ message = NoMessage
    /\ NoFleet
    /\ NoMetrics
    /\ adapter = NoAdapter

Sequential == <<outputBucket, processor, request, pc, result, ExecuteLocals,
                calls, returned, invocations, intake, message, fleet,
                metrics, adapter>>

\* Execute, lines 53-58, with downloadVideo inlined
ConcurrentDownloadVideo(w) ==
    /\ workers[w].pc = "download"
    /\ \E outcome \in DownloadOutcomes :
         LET tempFile == TempVideoFile(workers[w].req)
         IN  /\ files' = downloadVideoFiles(files, tempFile, outcome)
             /\ touched' = touched \cup
                    (IF outcome \in {"copyErr", "ok"}
                     THEN Touch(w, "write", {tempFile}) ELSE {}) \cup
                    (IF outcome = "copyErr"
                     THEN Touch(w, "remove", {tempFile}) ELSE {})
             /\ workers' = [workers EXCEPT
                    ![w].pc = IF outcome = "ok" THEN "process" ELSE "done",
                    ![w].defers = IF outcome = "ok" THEN <<tempFile>>
                                  ELSE <<>>]
    /\ UNCHANGED Sequential

\* ProcessVideo, lines 30-57: process directory, ffmpeg run, frame listing
ConcurrentProcessVideo(w) ==
    /\ workers[w].pc = "process"
    /\ \E outcome \in FFmpegOutcomes, n \in 0..MaxFrames :
         IF outcome = "mkdirErr"
         THEN /\ n = 0
              /\ workers' = [workers EXCEPT ![w].pc = "return"]
              /\ UNCHANGED <<files, touched>>
         ELSE /\ files' = files \cup {ProcessDir} \cup FrameFiles(n)
              /\ touched' = touched \cup
                     Touch(w, "write", {ProcessDir} \cup FrameFiles(n)) \cup
                     (IF outcome = "ok"
                      THEN Touch(w, "read", Glob(files')) ELSE {})
              /\ workers' = [workers EXCEPT
                     ![w].frames = IF outcome = "ok" THEN Glob(files') ELSE {},
                     ![w].pc = IF outcome = "ok" /\ Glob(files') # {}
                               THEN "create_zip" ELSE "process_return"]
    /\ UNCHANGED Sequential

\* ProcessVideo, lines 59-64, with createZipFile (lines 67-84) inlined
ConcurrentCreateZipFile(w) ==
    /\ workers[w].pc = "create_zip"
    /\ \E outcome \in ZipOutcomes :
         /\ files' = createZipFiles(files, outcome)
         /\ touched' = touched \cup
                (IF outcome = "createErr" THEN {}
                 ELSE Touch(w, "write", {ArchiveFile}) \cup
                      Touch(w, "read", workers[w].frames \cap files))
         /\ workers' = [workers EXCEPT
                ![w].pc = "process_return",
                ![w].defers = IF outcome = "ok"
                              THEN Append(workers[w].defers, ArchiveFile)
                              ELSE workers[w].defers]
    /\ UNCHANGED Sequential

\* ProcessVideo, line 35: the deferred os.RemoveAll(processDir); Execute
\* goes on to uploadZip when the adapter returned an archive
ConcurrentProcessVideoReturn(w) ==
    /\ workers[w].pc = "process_return"
    /\ files' = RemoveAll(files, ProcessDir)
    /\ touched' = touched \cup Touch(w, "remove", files \ files')
    /\ workers' = [workers EXCEPT
           ![w].frames = {},
           ![w].pc = IF Len(workers[w].defers) = 2 THEN "upload"
                     ELSE "return"]
    /\ UNCHANGED Sequential

\* uploadZip, lines 139-143: os.Open(zipPath)
ConcurrentUploadZip(w) ==
    /\ workers[w].pc = "upload"
    /\ touched' = touched \cup Touch(w, "read", {ArchiveFile} \cap files)
    /\ workers' = [workers EXCEPT ![w].pc = "return"]
    /\ UNCHANGED <<Sequential, files>>

\* Execute returns: its deferred os.Remove calls run
ConcurrentReturn(w) ==
    /\ workers[w].pc = "return"
    /\ files' = RunDefers(files, workers[w].defers)
    /\ touched' = touched \cup Touch(w, "remove", files \ files')
    /\ workers' = [workers EXCEPT ![w].pc = "done", ![w].defers = <<>>]
    /\ UNCHANGED Sequential

ConcurrentNext ==
    \E w \in Workers :
        \/ ConcurrentDownloadVideo(w)
        \/ ConcurrentProcessVideo(w)
        \/ ConcurrentCreateZipFile(w)
        \/ ConcurrentProcessVideoReturn(w)
        \/ ConcurrentUploadZip(w)
        \/ ConcurrentReturn(w)

ConcurrentSpec == ConcurrentInit /\ [][ConcurrentNext]_vars

\* ------------------------------------------------- domain layer on its own
\* the errors a ProcessResult is converted with: none, one with an empty
\* text, a plain one and a wrapped one
DomainErrors ==
    { NoError, New(""), New("processing failed"),
      Errorf("failed to download video", New("storage error")) }

ProcessResults ==
    [ProcessID : ProcessIDs, FileBucket : {"", "out"},
     FileKey : {"", "processed/frames_p1.zip"}, Success : BOOLEAN,
     Error : DomainErrors]

DomainInit ==
    /\ outputBucket = "out"
    /\ processor = "ffmpeg"
    /\ request = IdleRequest
    /\ pc = "domain"
    /\ result \in ProcessResults
    /\ videoPath = <<>>
    /\ zipPath = <<>>
    /\ frameCount = 0
    /\ pvErr = NoError
    /\ frames = {}
    /\ defers = <<>>
    /\ files = {}
    /\ calls = <<>>
    /\ returned = NoError
    /\ invocations = 0
    /\ NoIntake
    /\ NoConcurrent
    /\ message = NoMessage
    /\ NoFleet
    /\ NoMetrics
    /\ adapter = NoAdapter

DomainFrame == <<outputBucket, processor, request, result, ExecuteLocals,
                 files, calls, returned, invocations, intake, concurrent,
                 fleet, metrics, adapter>>

\* ProcessResult.ToErrorMessage called on the result
ToErrorMessageCall ==
    /\ pc = "domain"
    /\ message' = ToErrorMessage(result)
    /\ pc' = "error_message"
    /\ UNCHANGED DomainFrame

\* ProcessResult.ToSuccessMessage called on the result
ToSuccessMessageCall ==
    /\ pc = "domain"
    /\ message' = ToSuccessMessage(result)
    /\ pc' = "success_message"
    /\ UNCHANGED DomainFrame

DomainNext == ToErrorMessageCall \/ ToSuccessMessageCall

DomainSpec == DomainInit /\ [][DomainNext]_vars

\* ------------------------------------------ several instances, one queue
\* ReceiveMessageInput.VisibilityTimeout of zero: no lease
VisibilityTimeout_none == 1 - 1

\* ReceiveMessageInput.VisibilityTimeout, in seconds
VisibilityTimeout == 300

Instances == {"i1", "i2"}

\* the messages a ReceiveMessage of any instance can return: those neither
\* deleted nor under the lease of an earlier receive
Available == {id \in MessageIds : shared[id].state = "visible"}

\* history[id] with one more occurrence counted
Counted(id, what) == [history EXCEPT ![id][what] = history[id][what] + 1]

FleetInit ==
    /\ outputBucket = "out"
    /\ processor = "ffmpeg"
    /\ request = IdleRequest
    /\ pc = "idle"
    /\ result = NewResult(IdleRequest)
    /\ videoPath = <<>>
    /\ zipPath = <<>>
    /\ frameCount = 0
    /\ pvErr = NoError
    /\ frames = {}
    /\ defers = <<>>
    /\ files = {}
    /\ calls = <<>>
    /\ returned = NoError
    /\ invocations = 0
    /\ NoIntake
    /\ NoConcurrent
    /\ message = NoMessage
    /\ instance = [i \in Instances |->
                      [loop |-> "receive", msg |-> 0, polls |-> 0]]
    /\ shared \in [MessageIds -> [body : LoopBodies, state : {"visible"}]]
    /\ history = [id \in MessageIds |->
                     [receives |-> 0, expiries |-> 0, executes |-> 0,
                      notifies |-> 0, deletes |-> 0]]
    /\ NoMetrics
    /\ adapter = NoAdapter

FleetFrame == <<outputBucket, processor, request, pc, result, ExecuteLocals,
                files, calls, returned, invocations, intake, concurrent,
                message, metrics, adapter>>

\* main, lines 114-132, in instance i: ReceiveMessage on the shared queue;
\* a returned message is hidden from other receives for VisibilityTimeout
FleetReceiveMessage(i) ==
    /\ instance[i].loop = "receive"
    /\ instance[i].polls < MaxPolls
    /\ \E got \in SUBSET Available :
         /\ Cardinality(got) <= MaxNumberOfMessages
         /\ shared' = [id \in MessageIds |->
                          IF id \in got /\ VisibilityTimeout > 0
                          THEN [shared[id] EXCEPT !.state = "leased"]
                          ELSE shared[id]]
         /\ IF got = {}
            THEN /\ instance' = [instance EXCEPT
                        ![i].polls = instance[i].polls + 1]
                 /\ UNCHANGED history
            ELSE LET id == CHOOSE id \in got : TRUE
                 IN  /\ history' = Counted(id, "receives")
                     /\ instance' = [instance EXCEPT
                            ![i] = [loop |-> "decode", msg |-> id,
                                    polls |-> instance[i].polls + 1]]
    /\ UNCHANGED FleetFrame

\* processMessage, lines 179-212, in instance i
FleetDecode(i) ==
    /\ instance[i].loop = "decode"
    /\ LET id == instance[i].msg
           next == afterDecode(Unmarshal(shared[id].body).err)
       IN  /\ instance' = [instance EXCEPT ![i].loop = next]
           /\ history' = IF next = "dispatching"
                         THEN Counted(id, "executes")
                         ELSE history
    /\ UNCHANGED <<FleetFrame, shared>>

\* processMessage, line 212, in instance i: Execute runs to its return; to
\* the other instances it shows as its one notification attempt
FleetExecute(i) ==
    /\ instance[i].loop = "dispatching"
    /\ \E err \in {NoError, New("failed")} :
         instance' = [instance EXCEPT ![i].loop = afterExecute(err, 0)]
    /\ history' = Counted(instance[i].msg, "notifies")
    /\ UNCHANGED <<FleetFrame, shared>>

\* processMessage, lines 193 and 215, with deleteMessage, in instance i
FleetDeleteMessage(i) ==
    /\ instance[i].loop = "ack"
    /\ \E ok \in BOOLEAN :
         LET id == instance[i].msg
         IN  /\ shared' = IF ok THEN [shared EXCEPT ![id].state = "deleted"]
                          ELSE shared
             /\ history' = IF ok THEN Counted(id, "deletes") ELSE history
    /\ instance' = [instance EXCEPT ![i].loop = "receive", ![i].msg = 0]
    /\ UNCHANGED FleetFrame

\* the queue service: the lease of a received message runs out
FleetLeaseExpire ==
    /\ \E id \in MessageIds :
         /\ shared[id].state = "leased"
         /\ shared' = [shared EXCEPT ![id].state = "visible"]
         /\ history' = Counted(id, "expiries")
    /\ UNCHANGED <<FleetFrame, instance>>

FleetNext ==
    \/ \E i \in Instances :
         \/ FleetReceiveMessage(i)
         \/ FleetDecode(i)
         \/ FleetExecute(i)
         \/ FleetDeleteMessage(i)
    \/ FleetLeaseExpire

FleetSpec == FleetInit /\ [][FleetNext]_vars

\* ------------------------------------------------------------ MetricsServer
MaxSetReadyCalls == 1
MaxRequests == 1

\* goroutines calling SetReady and goroutines serving readiness requests
Setters == {"s1", "s2"}

Probes == {"r1", "r2"}

ReadinessPaths == {"/ready", "/processor/health/readiness"}

\* handleReady / handleReadiness answering 200 whatever the flag is
StatusFor_alwaysOK(flag) == "StatusOK"

\* the status handleReady and handleReadiness write for the copied flag
StatusFor(flag) == IF flag THEN "StatusOK" ELSE "StatusServiceUnavailable"

\* the body handleReady and handleReadiness write for the copied flag
BodyFor(path, flag) ==
    IF path = "/ready"
    THEN (IF flag THEN "READY" ELSE "NOT READY")
    ELSE (IF flag THEN "{\"status\":\"ready\"}"
          ELSE "{\"status\":\"not_ready\"}")

IdleThread ==
    [pc |-> "idle", n |-> 0, arg |-> FALSE, path |-> "", local |-> FALSE,
     at |-> 0, status |-> "", body |-> ""]

MetricsInit ==
    /\ outputBucket = "out"
    /\ processor = "ffmpeg"
    /\ request = IdleRequest
    /\ pc = "idle"
    /\ result = NewResult(IdleRequest)
    /\ videoPath = <<>>
    /\ zipPath = <<>>
    /\ frameCount = 0
    /\ pvErr = NoError
    /\ frames = {}
    /\ defers = <<>>
    /\ files = {}
    /\ calls = <<>>
    /\ returned = NoError
    /\ invocations = 0
    /\ NoIntake
    /\ NoConcurrent
    /\ message = NoMessage
    /\ NoFleet
    /\ ready = FALSE
    /\ mu = [writer |-> "", readers |-> {}]
    /\ threads = [t \in Setters \cup Probes |-> IdleThread]
    /\ stores = <<FALSE>>
    /\ adapter = NoAdapter

MetricsFrame == <<outputBucket, processor, request, pc, result, ExecuteLocals,
                  files, calls, returned, invocations, intake, concurrent,
                  message, fleet, adapter>>

\* a goroutine calls SetReady(v)
SetReadyCall(t) ==
    /\ t \in Setters
    /\ threads[t].pc = "idle"
    /\ threads[t].n < MaxSetReadyCalls
    /\ \E v \in BOOLEAN :
         threads' = [threads EXCEPT ![t].pc = "lock", ![t].arg = v,
                                    ![t].n = threads[t].n + 1]
    /\ UNCHANGED <<MetricsFrame, ready, mu, stores>>

\* SetReady, line 102: s.mu.Lock()
SetReadyLock(t) ==
    /\ threads[t].pc = "lock"
    /\ mu.writer = ""
    /\ mu.readers = {}
    /\ mu' = [mu EXCEPT !.writer = t]
    /\ threads' = [threads EXCEPT ![t].pc = "store"]
    /\ UNCHANGED <<MetricsFrame, ready, stores>>

\* SetReady, line 103: s.ready = ready
SetReadyStore(t) ==
    /\ threads[t].pc = "store"
    /\ ready' = threads[t].arg
    /\ stores' = Append(stores, threads[t].arg)
    /\ threads' = [threads EXCEPT ![t].pc = "unlock"]
    /\ UNCHANGED <<MetricsFrame, mu>>

\* SetReady, lines 104-112: s.mu.Unlock() and the log line
SetReadyUnlock(t) ==
    /\ threads[t].pc = "unlock"
    /\ mu' = [mu EXCEPT !.writer = ""]
    /\ threads' = [threads EXCEPT ![t].pc = "idle"]
    /\ UNCHANGED <<MetricsFrame, ready, stores>>

\* the HTTP server starts handleReady or handleReadiness for a request
ReadinessRequest(t) ==
    /\ t \in Probes
    /\ threads[t].pc \in {"idle", "responded"}
    /\ threads[t].n < MaxRequests
    /\ \E path \in ReadinessPaths :
         threads' = [threads EXCEPT
             ![t] = [IdleThread EXCEPT !.pc = "rlock", !.path = path,
                                       !.n = threads[t].n + 1]]
    /\ UNCHANGED <<MetricsFrame, ready, mu, stores>>

\* handleReady line 61, handleReadiness line 86: s.mu.RLock()
HandlerRLock(t) ==
    /\ threads[t].pc = "rlock"
    /\ mu.writer = ""
    /\ mu' = [mu EXCEPT !.readers = mu.readers \cup {t}]
    /\ threads' = [threads EXCEPT ![t].pc = "load"]
    /\ UNCHANGED <<MetricsFrame, ready, stores>>

\* handleReady line 62, handleReadiness line 87: ready := s.ready
HandlerLoad(t) ==
    /\ threads[t].pc = "load"
    /\ threads' = [threads EXCEPT ![t].pc = "runlock", ![t].local = ready,
                                  ![t].at = Len(stores)]
    /\ UNCHANGED <<MetricsFrame, ready, mu, stores>>

\* handleReady line 63, handleReadiness line 88: s.mu.RUnlock()
HandlerRUnlock(t) ==
    /\ threads[t].pc = "runlock"
    /\ mu' = [mu EXCEPT !.readers = mu.readers \ {t}]
    /\ threads' = [threads EXCEPT ![t].pc = "respond"]
    /\ UNCHANGED <<MetricsFrame, ready, stores>>

\* handleReady lines 65-71, handleReadiness lines 90-97: the reply
HandlerRespond(t) ==
    /\ threads[t].pc = "respond"
    /\ threads' = [threads EXCEPT
           ![t].pc = "responded",
           ![t].status = StatusFor(threads[t].local),
           ![t].body = BodyFor(threads[t].path, threads[t].local)]
    /\ UNCHANGED <<MetricsFrame, ready, mu, stores>>

MetricsNext ==
    \E t \in Setters \cup Probes :
        \/ SetReadyCall(t)
        \/ SetReadyLock(t)
        \/ SetReadyStore(t)
        \/ SetReadyUnlock(t)
        \/ ReadinessRequest(t)
        \/ HandlerRLock(t)
        \/ HandlerLoad(t)
        \/ HandlerRUnlock(t)
        \/ HandlerRespond(t)

MetricsSpec == MetricsInit /\ [][MetricsNext]_vars

\* ------------------------------------------- StorageAdapter, MessageAdapter
MaxAdapterCalls == 2

\* the methods of the two adapters
AdapterMethods == {"GetObject", "PutObject", "DeleteObject", "SendMessage"}

\* the arguments a caller passes, context aside
AdapterArgs(method) ==
    CASE method = "GetObject" -> {"in", "out"} \X {"v.mp4", "w.avi"}
      [] method = "PutObject" -> {"in", "out"} \X {"v.mp4", "w.avi"} \X {"zip"}
      [] method = "DeleteObject" -> {"in", "out"} \X {"v.mp4", "w.avi"}
      [] method = "SendMessage" -> {"queue-out", "queue-in"} \X {"{}", "x"}

\* the values a service method can return beside its error: a reader, an
\* object location, a message id; a method may return its zero value
ServiceValues(method) ==
    CASE method = "GetObject" -> {"", "reader"}
      [] method = "PutObject" -> {"", "s3://out/v.zip"}
      [] method = "DeleteObject" -> {""}
      [] method = "SendMessage" -> {"", "msg-1"}

\* the errors a service can return: nil, a plain error, a wrapped error
ServiceErrors ==
    {NoError, New("storage error"), Errorf("send failed", New("timeout"))}

\* an adapter wrapping the error of its service
adapterError_wrapped(err) ==
    IF err = NoError THEN err ELSE Errorf("adapter error", err)

\* the error an adapter method returns: that of the service call
adapterError(err) == err

AdapterInit ==
    /\ outputBucket = "out"
    /\ processor = "ffmpeg"
    /\ request = IdleRequest
    /\ pc = "idle"
    /\ result = NewResult(IdleRequest)
    /\ videoPath = <<>>
    /\ zipPath = <<>>
    /\ frameCount = 0
    /\ pvErr = NoError
    /\ frames = {}
    /\ defers = <<>>
    /\ files = {}
    /\ calls = <<>>
    /\ returned = NoError
    /\ invocations = 1
    /\ NoIntake
    /\ NoConcurrent
    /\ message = NoMessage
    /\ NoFleet
    /\ NoMetrics
    /\ adapter = [NoAdapter EXCEPT !.pc = "idle"]

AdapterFrame == <<outputBucket, processor, request, pc, result, ExecuteLocals,
                  files, calls, returned, invocations, intake, concurrent,
                  message, fleet, metrics>>

\* a caller invokes a method of an adapter through its port
AdapterCall ==
    /\ adapter.pc = "idle"
    /\ adapter.count < MaxAdapterCalls
    /\ \E method \in AdapterMethods :
         \E args \in AdapterArgs(method) :
             adapter' = [pc |-> "called", method |-> method, args |-> args,
                         service |-> <<>>, ret |-> <<>>,
                         count |-> adapter.count + 1]
    /\ UNCHANGED AdapterFrame

\* the body of the method: a.service.<method>(ctx, args...); the service
\* answers with any value and any error
ServiceCall ==
    /\ adapter.pc = "called"
    /\ \E value \in ServiceValues(adapter.method), err \in ServiceErrors :
         adapter' = [adapter EXCEPT
                        !.pc = "answered",
                        !.service = Append(@, [method |-> adapter.method,
                                               args |-> adapter.args,
                                               value |-> value, err |-> err])]
    /\ UNCHANGED AdapterFrame

\* the method's return statement: the values of the service call
AdapterReturn ==
    /\ adapter.pc = "answered"
    /\ LET answer == adapter.service[Len(adapter.service)]
       IN  adapter' = [adapter EXCEPT
                          !.pc = "returned",
                          !.ret = <<answer.value, adapterError(answer.err)>>]
    /\ UNCHANGED AdapterFrame

\* the caller has its result; the adapter keeps no state between calls
AdapterDone ==
    /\ adapter.pc = "returned"
    /\ adapter' = [NoAdapter EXCEPT !.pc = "idle", !.count = adapter.count]
    /\ UNCHANGED AdapterFrame

AdapterNext ==
    \/ AdapterCall
    \/ ServiceCall
    \/ AdapterReturn
    \/ AdapterDone

AdapterSpec == AdapterInit /\ [][AdapterNext]_vars

\* ------------------------------------------------------------ observations
CallsOf(op) == SelectSeq(calls, LAMBDA c : c.op = op)

Count(op) == Len(CallsOf(op))

Notifications == CallsOf("SendMessage")

BodyKeys(body) == {body[i][1] : i \in DOMAIN body}

IsFailurePayload(body) == BodyKeys(body) = {"process_id", "error_message"}

IsSuccessPayload(body) == BodyKeys(body) = {"process_id", "file_bucket", "file_key"}

OneFailureNotification ==
    /\ Count("SendMessage") = 1
    /\ IsFailurePayload(Notifications[1].body)

NoStorageOrProcessorCall ==
    /\ Count("GetObject") = 0
    /\ Count("PutObject") = 0
    /\ Count("DeleteObject") = 0
    /\ Count("ProcessVideo") = 0

EmptyField(req) ==
    req.ProcessID = "" \/ req.VideoBucket = "" \/ req.VideoKey = <<>>

RequiredFieldErrors ==
    { <<"process_id is required">>, <<"video_bucket is required">>,
      <<"video_key is required">> }

AllowedExtensions ==
    { <<"m", "p", "4">>, <<"a", "v", "i">>, <<"m", "o", "v">>,
      <<"m", "k", "v">>, <<"w", "m", "v">>, <<"f", "l", "v">>,
      <<"w", "e", "b", "m">> }

LowerChar(c) ==
    CASE c = "M" -> "m" [] c = "P" -> "p" [] c = "K" -> "k" [] c = "V" -> "v"
      [] OTHER -> c

ToLower(s) == [i \in DOMAIN s |-> LowerChar(s[i])]

\* the extension of a key without its dot; empty when the key has none
Extension(key) == IF Ext(key) = <<>> THEN <<>> ELSE Tail(Ext(key))

Finished == pc \in {"return", "done"}

PublishFailed ==
    \/ \E i \in DOMAIN calls : calls[i].op = "PutObject" /\ ~calls[i].ok
    \/ result.Error # NoError /\ Head(result.Error) = "failed to upload zip"

PublishSucceeded ==
    \E i \in DOMAIN calls : calls[i].op = "PutObject" /\ calls[i].ok

AcquireFailed ==
    /\ Count("GetObject") = 1
    /\ videoPath = <<>>
    /\ pc \in {"send_error", "return", "done"}

AcquisitionErrorTexts ==
    { "failed to download video: failed to get object from storage: storage error",
      "failed to download video: failed to create temp directory: mkdir failed",
      "failed to download video: failed to create temp file: create failed",
      "failed to download video: failed to save video: read error" }

\* ------------------------------------------------------------------ claims

\* C1: every Execute invocation performs exactly one SendMessage before it
\* returns, on every path; never zero sends at return, never two.
C1_ExactlyOneSend ==
    /\ Count("SendMessage") <= 1
    /\ Finished => Count("SendMessage") = 1

C1_Witness ==
    /\ pc = "done"
    /\ Count("SendMessage") = 1
    /\ result.Error # NoError
    /\ Head(result.Error) = "failed to upload zip"

\* C2 (as stated): for a request with an empty process_id, source_bucket or
\* source_key, Execute returns a non-nil validation error, sends exactly one
\* failure notification and makes no storage and no extractor call.
C2_ReturnsValidationError ==
    (pc = "done" /\ EmptyField(request)) =>
        /\ returned \in RequiredFieldErrors
        /\ OneFailureNotification
        /\ NoStorageOrProcessorCall

\* C2 (amended): for such a request Execute returns a non-nil error, which is
\* the validation error when the notification send succeeds and the send
\* error when it fails; exactly one failure notification is sent and no
\* storage or extractor call is made.
C2_ValidationShortCircuit ==
    (EmptyField(request) /\ pc # "idle") =>
        /\ NoStorageOrProcessorCall
        /\ pc \in {"start", "send_error", "return", "done"}
        /\ Finished =>
              /\ OneFailureNotification
              /\ returned # NoError
              /\ Notifications[1].ok => returned \in RequiredFieldErrors
              /\ ~Notifications[1].ok =>
                     Head(returned) = "failed to send error message"

C2_Witness ==
    /\ pc = "done"
    /\ request.ProcessID # ""
    /\ request.VideoBucket = ""
    /\ Count("SendMessage") = 1
    /\ Notifications[1].ok
    /\ returned = <<"video_bucket is required">>

\* C3: a request with non-empty fields whose source_key extension is not one
\* of mp4, avi, mov, mkv, wmv, flv, webm (or has no extension) fails
\* validation: one failure notification, no storage or extractor call.
C3_UnknownExtensionRejected ==
    (~EmptyField(request) /\ Extension(request.VideoKey) \notin AllowedExtensions
       /\ pc # "start") =>
        /\ NoStorageOrProcessorCall
        /\ pc \in {"send_error", "return", "done"}
        /\ result.Error # NoError
        /\ Finished => OneFailureNotification

C3_Witness ==
    /\ pc = "done"
    /\ ~EmptyField(request)
    /\ Ext(request.VideoKey) = <<>>
    /\ HasSuffix(request.VideoKey, <<"m", "p", "4">>)
    /\ OneFailureNotification

\* C4: the allow-list is matched case-insensitively: a request with non-empty
\* fields whose extension equals an allow-listed one in any letter case
\* passes validation and proceeds to the acquire stage.
C4_CaseInsensitiveAllowList ==
    (~EmptyField(request) /\ pc # "start"
       /\ ToLower(Extension(request.VideoKey)) \in AllowedExtensions) =>
        pc = "download" \/ Count("GetObject") = 1

\* C5: when acquisition succeeds and the extractor returns a frame count of
\* zero with no error and an archive path, Execute treats the job as failed:
\* failure notification, no PutObject, no DeleteObject.
C5_ZeroFramesIsFailure ==
    (/\ Count("ProcessVideo") = 1
     /\ pvErr = NoError /\ frameCount = 0 /\ zipPath # <<>>
     /\ pc \in {"upload", "delete", "send_success", "send_error", "return", "done"}) =>
        /\ Count("PutObject") = 0
        /\ Count("DeleteObject") = 0
        /\ pc \in {"send_error", "return", "done"}
        /\ Finished => OneFailureNotification

\* C6: when the publish stage fails (archive cannot be opened or PutObject
\* errors), Execute sends a failure notification and never calls
\* DeleteObject in that invocation.
C6_PublishFailureKeepsSource ==
    PublishFailed =>
        /\ Count("DeleteObject") = 0
        /\ pc \in {"send_error", "return", "done"}
        /\ Finished => OneFailureNotification

C6_Witness ==
    /\ pc = "done"
    /\ \E i \in DOMAIN calls : calls[i].op = "PutObject" /\ ~calls[i].ok
    /\ OneFailureNotification

\* C7: when publish succeeds and DeleteObject on the source fails, Execute
\* sends a success notification and, when that send succeeds, returns nil.
C7_DeleteFailureIsNotFatal ==
    (/\ Finished
     /\ PublishSucceeded
     /\ \E i \in DOMAIN calls : calls[i].op = "DeleteObject" /\ ~calls[i].ok) =>
        /\ Count("SendMessage") = 1
        /\ IsSuccessPayload(Notifications[1].body)
        /\ Notifications[1].ok => returned = NoError

C7_Witness ==
    /\ pc = "done"
    /\ \E i \in DOMAIN calls : calls[i].op = "DeleteObject" /\ ~calls[i].ok
    /\ Count("SendMessage") = 1
    /\ Notifications[1].ok
    /\ returned = NoError

\* C8: after Execute returns, neither the local video file of the acquire
\* stage nor the local archive file of the transform stage exists, on
\* success and on every failure path.
C8_NoLocalFilesAfterReturn ==
    pc = "done" =>
        /\ TempVideoFile(request) \notin files
        /\ ArchiveFile \notin files
        /\ MockZipPath \notin files

\* C9: when the acquire stage fails, Execute sends a failure notification
\* carrying the request's process_id and the wrapped acquisition error text,
\* and makes no extractor, PutObject or DeleteObject call.
C9_AcquireFailureNotified ==
    AcquireFailed =>
        /\ Count("ProcessVideo") = 0
        /\ Count("PutObject") = 0
        /\ Count("DeleteObject") = 0
        /\ Finished =>
              /\ Count("SendMessage") = 1
              /\ \E text \in AcquisitionErrorTexts :
                    Notifications[1].body =
                        << <<"error_message", text>>,
                           <<"process_id", request.ProcessID>> >>
              /\ ~CallsOf("GetObject")[1].ok =>
                    Notifications[1].body[1][2] =
                        "failed to download video: failed to get object from storage: storage error"

C9_Witness ==
    /\ pc = "done"
    /\ Count("GetObject") = 1
    /\ ~CallsOf("GetObject")[1].ok
    /\ Count("SendMessage") = 1
    /\ request.ProcessID = "p2"

\* C10: on the success path the archive is uploaded to (output bucket,
\* "processed/frames_" + process_id + ".zip") and the success notification
\* names that bucket, that key and the request's process_id.
C10_DeterministicOutputKey ==
    (Finished /\ PublishSucceeded) =>
        LET key == "processed/frames_" \o request.ProcessID \o ".zip"
        IN  /\ Count("PutObject") = 1
            /\ CallsOf("PutObject")[1].bucket = outputBucket
            /\ CallsOf("PutObject")[1].key = key
            /\ Count("SendMessage") = 1
            /\ Notifications[1].body =
                   << <<"file_bucket", outputBucket>>, <<"file_key", key>>,
                      <<"process_id", request.ProcessID>> >>

C10_Witness ==
    /\ pc = "done"
    /\ PublishSucceeded
    /\ request.ProcessID = "p2"
    /\ outputBucket = "in"
    /\ Notifications[1].ok
    /\ Notifications[1].body[2] = <<"file_key", "processed/frames_p2.zip">>

StageErrorHeads ==
    { "process_id is required", "video_bucket is required",
      "video_key is required",
      "invalid video file format. Supported: mp4, avi, mov, mkv, wmv, flv, webm",
      "failed to download video", "failed to process video",
      "failed to upload zip" }

SendErrorHeads ==
    {"failed to send success message", "failed to send error message"}

\* C11: when the notification send fails, Execute returns a non-nil error
\* that reports the send failure, for a success payload and for a failure
\* payload alike.
C11_SendFailureReturned ==
    (Finished /\ ~Notifications[1].ok) =>
        /\ returned # NoError
        /\ returned[Len(returned)] = "send message failed"
        /\ IsSuccessPayload(Notifications[1].body) =>
               Head(returned) = "failed to send success message"
        /\ IsFailurePayload(Notifications[1].body) =>
               Head(returned) = "failed to send error message"

C11_Witness ==
    /\ pc = "done"
    /\ Count("SendMessage") = 1
    /\ ~Notifications[1].ok
    /\ IsSuccessPayload(Notifications[1].body)
    /\ returned = <<"failed to send success message", "send message failed">>

\* C12 (as stated): validation, acquisition, extraction and publish errors
\* do not propagate: when such a stage fails and the failure notification is
\* sent successfully, Execute returns no error; a send failure is the only
\* error Execute ever returns.
C12_StageErrorsNotReturned ==
    pc = "done" =>
        /\ (IsFailurePayload(Notifications[1].body) /\ Notifications[1].ok) =>
               returned = NoError
        /\ returned # NoError => ~Notifications[1].ok

\* C12 (amended): validation, acquisition, extraction and publish errors are
\* reported through the failure notification and are also returned: when
\* such a stage fails and the failure notification is sent successfully,
\* Execute returns that stage's error; when the send fails it returns the
\* send error instead; it returns nil only after a success notification
\* was sent.
C12_StageErrorsReturned ==
    pc = "done" =>
        /\ (IsFailurePayload(Notifications[1].body) /\ Notifications[1].ok) =>
               /\ returned # NoError
               /\ returned = result.Error
               /\ Head(returned) \in StageErrorHeads
        /\ ~Notifications[1].ok => Head(returned) \in SendErrorHeads
        /\ returned = NoError =>
               IsSuccessPayload(Notifications[1].body) /\ Notifications[1].ok

C12_Witness ==
    /\ pc = "done"
    /\ IsFailurePayload(Notifications[1].body)
    /\ Notifications[1].ok
    /\ returned = <<"failed to process video", "no frames extracted from video">>

PortOrder ==
    <<"GetObject", "ProcessVideo", "PutObject", "DeleteObject", "SendMessage">>

Rank(op) == CHOOSE i \in DOMAIN PortOrder : PortOrder[i] = op

\* a call of op was made, and had returned, before the call at position j
CompletedBefore(op, j) ==
    \E i \in 1..(j - 1) : calls[i].op = op

\* C20: within one Execute call the port calls happen one after the other in
\* the order GetObject, extractor, PutObject, DeleteObject, SendMessage:
\* each call starts only after the previous stage's call has completed.
C20_StrictStageOrder ==
    /\ \A i, j \in DOMAIN calls :
          i < j => Rank(calls[i].op) < Rank(calls[j].op)
    /\ \A j \in DOMAIN calls :
          /\ calls[j].op = "ProcessVideo" => CompletedBefore("GetObject", j)
          /\ calls[j].op = "PutObject" => CompletedBefore("ProcessVideo", j)
          /\ calls[j].op = "DeleteObject" => CompletedBefore("PutObject", j)

C20_Witness ==
    /\ pc = "done"
    /\ Len(calls) = 5
    /\ [i \in 1..5 |-> calls[i].op] = PortOrder

\* ------------------------------------------------------ intake loop claims
\* what the loop itself did, in order (signal deliveries left out)
LoopEvents == SelectSeq(events, LAMBDA e : e.ev # "signal")

\* the indices of the loop's events of one kind
EventsOf(ev) == {i \in 1..Len(LoopEvents) : LoopEvents[i].ev = ev}

\* C13: when Execute has returned for a received and decoded message,
\* whatever it returned, the loop's very next step is one DeleteMessage for
\* that message and the step after it is not another delete; Execute sent
\* its notification once and the loop does not call Execute again for this
\* delivery; the loop never moves on with the delete still owed.
C13_DeleteAfterExecute ==
    \A i \in EventsOf("execute_return") :
        /\ LoopEvents[i].n = 1
        /\ i > 2
        /\ LoopEvents[i - 1] = Event("execute_start", LoopEvents[i].id, TRUE, 0)
        /\ LoopEvents[i - 2] = Event("decode", LoopEvents[i].id, TRUE, 0)
        /\ IF i = Len(LoopEvents)
           THEN loop = "ack" /\ msg = LoopEvents[i].id
           ELSE /\ LoopEvents[i + 1].ev = "delete"
                /\ LoopEvents[i + 1].id = LoopEvents[i].id
                /\ i + 1 < Len(LoopEvents) =>
                       LoopEvents[i + 2].ev \notin {"delete", "execute_start"}

\* Execute returned an error for a decoded message, the loop issued the
\* delete and went on to the next poll
C13_Witness ==
    \E i \in EventsOf("execute_return") :
        /\ ~LoopEvents[i].ok
        /\ i + 2 <= Len(LoopEvents)
        /\ LoopEvents[i + 1].ev = "delete"
        /\ LoopEvents[i + 2].ev = "receive"

\* C14: when json.Unmarshal rejects a received body, the loop's next step is
\* the DeleteMessage for that message: Execute is not started, and while the
\* delete is pending no port of the use case has been called for it.
C14_MalformedDeletedWithoutExecute ==
    \A i \in EventsOf("decode") :
        ~LoopEvents[i].ok =>
            /\ Unmarshal(queue[LoopEvents[i].id].body).err # NoError
            /\ IF i = Len(LoopEvents)
               THEN /\ loop = "ack"
                    /\ msg = LoopEvents[i].id
                    /\ pc = "idle"
                    /\ calls = <<>>
               ELSE /\ LoopEvents[i + 1].ev = "delete"
                    /\ LoopEvents[i + 1].id = LoopEvents[i].id

\* a body that is not JSON and a body with a number where a string is
\* expected were both rejected and deleted, and the loop polled again
C14_Witness ==
    /\ \E i \in EventsOf("decode") :
         /\ ~LoopEvents[i].ok
         /\ queue[LoopEvents[i].id].body = InvalidBody
         /\ i + 2 <= Len(LoopEvents)
         /\ LoopEvents[i + 1] = Event("delete", LoopEvents[i].id, TRUE, 0)
         /\ LoopEvents[i + 2].ev = "receive"
    /\ \E i \in EventsOf("decode") :
         /\ ~LoopEvents[i].ok
         /\ queue[LoopEvents[i].id].body.kind = "object"
    /\ EventsOf("execute_start") = {}

\* a receive that brought nothing to handle: an error or an empty result
FruitlessReceives ==
    {i \in EventsOf("receive") : ~LoopEvents[i].ok \/ LoopEvents[i].n = 0}

\* C15 as stated: after a receive that returned an error or no message the
\* loop's next step is the backoff sleep.
C15_BackoffAfterFruitlessReceive ==
    \A i \in FruitlessReceives :
        IF i = Len(LoopEvents)
        THEN loop = "sleep"
        ELSE LoopEvents[i + 1].ev = "sleep"

\* C15, amended: a receive that returned an error is followed by the sleep
\* and then by the loop top (the next receive, or the shutdown if a signal
\* is pending); a receive that returned no message is followed by the loop
\* top directly, without a sleep; in both cases nothing is deleted, Execute
\* is not started and no port is called, and the loop does not stop because
\* of the receive.
C15_FruitlessReceivePollsAgain ==
    \A i \in FruitlessReceives :
        LET failed == ~LoopEvents[i].ok
            k == IF failed THEN i + 1 ELSE i
        IN  /\ failed /\ i < Len(LoopEvents) => LoopEvents[i + 1].ev = "sleep"
            /\ failed /\ i = Len(LoopEvents) => loop = "sleep"
            /\ k = Len(LoopEvents) =>
                   /\ loop \in {"select", "receive"}
                   /\ running
            /\ k < Len(LoopEvents) =>
                   LoopEvents[k + 1].ev \in {"receive", "shutdown"}
            /\ k >= Len(LoopEvents) => pc = "idle" /\ calls = <<>> /\ msg = 0

\* a failed receive was followed by the sleep and another receive; that one
\* returned no message and the loop is back at the receive call with no
\* sleep in between
C15_Witness ==
    \E i \in FruitlessReceives :
        /\ ~LoopEvents[i].ok
        /\ i + 2 = Len(LoopEvents)
        /\ LoopEvents[i + 1].ev = "sleep"
        /\ LoopEvents[i + 2] = Event("receive", 0, TRUE, 0)
        /\ loop = "receive"

\* Execute started at event i has returned and its message has been
\* acknowledged before event j
SettledBefore(i, j) ==
    \E k \in EventsOf("execute_return"), l \in EventsOf("delete") :
        /\ i < k /\ k < l /\ l < j
        /\ LoopEvents[k].id = LoopEvents[i].id
        /\ LoopEvents[l].id = LoopEvents[i].id

\* C16: every receive returns at most one message; after an Execute has
\* started, no receive and no other Execute starts until that Execute has
\* returned and the DeleteMessage for its message has been issued; Execute
\* is only ever running while the loop is waiting for it, with no further
\* message held.
C16_OneRequestInFlight ==
    /\ \A i \in EventsOf("receive") : LoopEvents[i].n <= 1
    /\ Len(batch) = 0
    /\ \A i \in EventsOf("execute_start") :
         \A j \in EventsOf("receive") \cup EventsOf("execute_start") :
             i < j => SettledBefore(i, j)
    /\ pc \notin {"idle", "done"} => loop = "dispatching"
    /\ loop \in {"select", "receive", "sleep", "decode", "stopped"} =>
           pc = "idle"

\* two different messages went through Execute one after the other
C16_Witness ==
    \E i, j \in EventsOf("execute_start") :
        /\ i < j
        /\ LoopEvents[i].id # LoopEvents[j].id
        /\ SettledBefore(i, j)
        /\ pc = "upload"

\* the positions in the full log of the signal deliveries, of the receive
\* calls and of the loop taking the signal from the channel
SignalsAt == {i \in 1..Len(events) : events[i].ev = "signal"}

ReceivesAt == {i \in 1..Len(events) : events[i].ev = "receive"}

ShutdownsAt == {i \in 1..Len(events) : events[i].ev = "shutdown"}

\* C17 as stated: no receive call is issued after a signal was delivered.
C17_NoReceiveAfterSignal ==
    \A i \in SignalsAt, j \in ReceivesAt : j < i

\* C17, amended: the loop looks at the signal channel only at the top of an
\* iteration, so after the first delivery at most one more receive call is
\* issued (the one of the iteration whose check had already passed); once
\* the loop has taken the signal from the channel it has stopped and issues
\* no receive call at all.
C17_AtMostOneReceiveAfterSignal ==
    /\ \A i \in SignalsAt :
         (\A h \in SignalsAt : i <= h) =>
             Cardinality({j \in ReceivesAt : i < j}) <= 1
    /\ \A i \in ShutdownsAt :
         /\ i = Len(events)
         /\ \E h \in SignalsAt : h < i
    /\ (loop = "stopped") = (ShutdownsAt # {})
    /\ (loop = "stopped") = ~running

\* a signal was delivered after the check at the loop top had passed: the
\* receive call was still issued, its message handled, and the loop stopped
\* at the next check
C17_Witness ==
    /\ loop = "stopped"
    /\ ~running
    /\ \E i \in SignalsAt, j \in ReceivesAt :
         /\ i < j
         /\ events[j].n = 1
         /\ \E l \in 1..Len(events) : j < l /\ events[l].ev = "delete"

\* the positions in the full log of one kind of event for one message
At(ev, id) == {i \in 1..Len(events) : events[i].ev = ev /\ events[i].id = id}

\* C18: when the loop has exited, every message a receive returned has had
\* its DeleteMessage issued after that receive, every Execute that was
\* started has returned after sending its one notification, and no Execute
\* is left part-way; this holds in particular when the signal was delivered
\* while Execute was running.
C18_ExitOnlyAfterAcknowledgement ==
    loop = "stopped" =>
        /\ pc = "idle"
        /\ msg = 0
        /\ \A j \in ReceivesAt :
             events[j].n > 0 =>
                 \E l \in At("delete", events[j].id) :
                     /\ j < l
                     /\ \A j2 \in ReceivesAt : j < j2 => l < j2
        /\ \A i \in 1..Len(events) :
             events[i].ev = "execute_start" =>
                 \E k \in At("execute_return", events[i].id) :
                     /\ i < k
                     /\ events[k].n = 1
                     /\ \E l \in At("delete", events[i].id) : k < l

\* the signal was delivered while Execute was running; Execute returned, the
\* message was deleted and only then did the loop exit
C18_Witness ==
    /\ loop = "stopped"
    /\ \E i, h, k, l \in 1..Len(events) :
         /\ i < h /\ h < k /\ k < l
         /\ events[i].ev = "execute_start"
         /\ events[h].ev = "signal"
         /\ events[k].ev = "execute_return"
         /\ events[k].id = events[i].id
         /\ events[l] = Event("delete", events[i].id, TRUE, 0)
         /\ queue[events[i].id].state = "deleted"

\* C19: when a shutdown signal has been delivered while Execute is running
\* for a message, the context passed to Execute and to its port calls is
\* cancelled.
C19_SignalCancelsContext ==
    (SignalsAt # {} /\ loop = "dispatching" /\ pc \notin {"idle", "done"})
        => CtxDone

\* ------------------------------------------------- further Execute claims
\* C21: within one Execute invocation the storage port sees at most one
\* GetObject, at most one PutObject and at most one DeleteObject, and the
\* processor port at most one ProcessVideo: a failed stage is not tried
\* again.
C21_AtMostOneCallPerStage ==
    /\ Count("GetObject") <= 1
    /\ Count("PutObject") <= 1
    /\ Count("DeleteObject") <= 1
    /\ Count("ProcessVideo") <= 1

\* an invocation whose PutObject failed has returned with that single
\* PutObject and no DeleteObject
C21_Witness ==
    /\ pc = "done"
    /\ Count("GetObject") = 1
    /\ Count("ProcessVideo") = 1
    /\ Count("PutObject") = 1
    /\ ~CallsOf("PutObject")[1].ok
    /\ Count("DeleteObject") = 0
    /\ returned # NoError

\* the two shapes of a ProcessResult
SuccessShape(r) ==
    r.Success /\ r.FileBucket # "" /\ r.FileKey # "" /\ r.Error = NoError

FailureShape(r) ==
    ~r.Success /\ r.FileBucket = "" /\ r.FileKey = "" /\ r.Error # NoError

\* C22: when sendSuccessMessage is about to build its payload the result is
\* a success with bucket and key set and no error; when sendErrorMessage is
\* about to build its payload the result is a failure with an error and
\* with bucket and key empty; the result is never both or neither.
C22_OutcomeHasOneShape ==
    /\ pc = "send_success" => SuccessShape(result)
    /\ pc = "send_error" => FailureShape(result)
    /\ pc \in {"send_success", "send_error"} =>
           SuccessShape(result) # FailureShape(result)

\* the success payload is about to be built after DeleteObject failed
C22_Witness ==
    /\ pc = "send_success"
    /\ SuccessShape(result)
    /\ result.FileBucket = outputBucket
    /\ \E i \in DOMAIN calls : calls[i].op = "DeleteObject" /\ ~calls[i].ok

\* C23: two Execute calls running concurrently in one process with
\* different process ids never write, read or remove the same temporary
\* path.
C23_TemporaryPathsDisjoint ==
    \A s, t \in touched : s.w # t.w => s.path # t.path

\* C24: the map ToErrorMessage builds has the members process_id and
\* error_message and no other; process_id is the result's, error_message is
\* the text of the result's error, or "unknown error" when the result has
\* no error; its JSON form carries both members.
C24_ErrorMessageContent ==
    pc = "error_message" =>
        /\ DOMAIN message = {"process_id", "error_message"}
        /\ message.process_id = result.ProcessID
        /\ result.Error # NoError =>
               message.error_message = ErrorText(result.Error)
        /\ result.Error = NoError => message.error_message = "unknown error"
        /\ IsFailurePayload(Marshal(message))

\* a result without an error was converted and got the placeholder
C24_Witness ==
    /\ pc = "error_message"
    /\ result.Error = NoError
    /\ message.error_message = "unknown error"
    /\ message.process_id = "p1"

\* ------------------------------------------------------ several instances
\* the instances that hold a message between its receive and its delete
Holders(id) == {i \in Instances : instance[i].msg = id}

Decodable(id) == Unmarshal(shared[id].body).err = NoError

\* C25: as long as no lease of a message has run out, at most one instance
\* holds it; once such a message has been deleted it was received once,
\* Execute was started for it at most once (exactly once if it is
\* decodable) and it caused as many notification attempts.
C25_OneInstancePerLease ==
    \A id \in MessageIds :
        history[id].expiries = 0 =>
            /\ Cardinality(Holders(id)) <= 1
            /\ history[id].receives <= 1
            /\ history[id].executes <= 1
            /\ history[id].notifies <= history[id].executes
            /\ shared[id].state = "deleted" =>
                   /\ history[id].executes = (IF Decodable(id) THEN 1 ELSE 0)
                   /\ history[id].notifies = history[id].executes

\* both instances are at work: one has processed and deleted a decodable
\* message within its lease, the other is running Execute for another one
C25_Witness ==
    \E id, other \in MessageIds, i \in Instances :
        /\ id # other
        /\ shared[id].state = "deleted"
        /\ history[id] = [receives |-> 1, expiries |-> 0, executes |-> 1,
                          notifies |-> 1, deletes |-> 1]
        /\ instance[i].msg = other
        /\ instance[i].loop = "dispatching"
        /\ \A k \in Instances : k # i => instance[k].polls > 0

\* ------------------------------------------------------------ MetricsServer
\* the replies that mean ready
ReportsReady(t) ==
    /\ threads[t].status = "StatusOK"
    /\ threads[t].body \in {"READY", "{\"status\":\"ready\"}"}

ReportsNotReady(t) ==
    /\ threads[t].status = "StatusServiceUnavailable"
    /\ threads[t].body \in {"NOT READY", "{\"status\":\"not_ready\"}"}

\* C26: the flag always holds the value of the most recent store; a reply
\* of either readiness endpoint says ready exactly when the most recent
\* store at the moment the handler copied the flag was a SetReady(true),
\* and not ready when no SetReady had stored anything yet; the copy a
\* handler works with is always a value that was stored; a SetReady never
\* holds the mutex together with a handler or another SetReady.
C26_ReadinessReflectsLastSetReady ==
    /\ ready = stores[Len(stores)]
    /\ mu.writer # "" => mu.readers = {}
    /\ \A t \in Probes :
         /\ threads[t].pc \in {"runlock", "respond", "responded"} =>
                /\ threads[t].at \in 1..Len(stores)
                /\ threads[t].local = stores[threads[t].at]
         /\ threads[t].pc = "responded" =>
                /\ ReportsReady(t) = stores[threads[t].at]
                /\ ReportsNotReady(t) = ~stores[threads[t].at]
                /\ threads[t].at = 1 => ReportsNotReady(t)

\* one probe was answered not ready before any SetReady, another was
\* answered ready after a SetReady(true), and a later SetReady(false) has
\* been stored since
C26_Witness ==
    /\ \E t \in Probes :
         /\ threads[t].pc = "responded"
         /\ threads[t].at = 1
         /\ ReportsNotReady(t)
    /\ \E t \in Probes :
         /\ threads[t].pc = "responded"
         /\ threads[t].at = 2
         /\ ReportsReady(t)
    /\ Len(stores) = 3
    /\ ~ready

\* ------------------------------------------------- further Execute claims
\* the value of a member of a marshalled payload
PayloadValue(body, key) ==
    LET i == CHOOSE i \in DOMAIN body : body[i][1] = key IN body[i][2]

\* the success notification was sent and the send succeeded
SuccessDelivered ==
    /\ Count("SendMessage") = 1
    /\ IsSuccessPayload(Notifications[1].body)
    /\ Notifications[1].ok

\* the failure notification was sent and the send succeeded
FailureDelivered ==
    /\ Count("SendMessage") = 1
    /\ IsFailurePayload(Notifications[1].body)
    /\ Notifications[1].ok

\* C27: Execute has returned nil exactly when PutObject succeeded and the
\* success notification was delivered; when a stage failed and the failure
\* notification was delivered, Execute has returned the non-nil error of
\* that stage, the one whose text the notification carries.
C27_NilIffPublishedAndNotified ==
    pc = "done" =>
        /\ (returned = NoError) = (PublishSucceeded /\ SuccessDelivered)
        /\ FailureDelivered =>
               /\ ~PublishSucceeded
               /\ returned # NoError
               /\ Head(returned) \in StageErrorHeads
               /\ ErrorText(returned) =
                      PayloadValue(Notifications[1].body, "error_message")

\* extraction failed, the failure notification was delivered and Execute
\* returned the extraction error
C27_Witness ==
    /\ pc = "done"
    /\ Count("ProcessVideo") = 1
    /\ Count("PutObject") = 0
    /\ FailureDelivered
    /\ Head(returned) = "failed to process video"

\* the archive of the current request was stored by call j
StoredAt(j) ==
    /\ calls[j].op = "PutObject"
    /\ calls[j].ok
    /\ calls[j].bucket = outputBucket
    /\ calls[j].key = OutputKey(request)

\* C28: whenever DeleteObject has been called on the source object, an
\* earlier PutObject of the same invocation stored the archive successfully
\* at the output bucket and the output key of the request.
C28_DeleteOnlyAfterPublish ==
    \A i \in DOMAIN calls :
        calls[i].op = "DeleteObject" =>
            /\ calls[i].bucket = request.VideoBucket
            /\ calls[i].key = request.VideoKey
            /\ \E j \in 1..(i - 1) : StoredAt(j)

\* the source object has just been deleted, after the archive was stored
C28_Witness ==
    /\ pc = "send_success"
    /\ \E i \in DOMAIN calls :
         /\ calls[i].op = "DeleteObject"
         /\ calls[i].ok
         /\ StoredAt(i - 1)

\* a storage call before call i failed
StorageFailedBefore(i) ==
    \E j \in 1..(i - 1) :
        /\ calls[j].op \in {"GetObject", "PutObject"}
        /\ ~calls[j].ok

\* C29: every success payload handed to SendMessage names a bucket and a
\* key for which an earlier PutObject of the same invocation succeeded; at
\* that point no storage call of the invocation has failed, the processor
\* reported no error and the result carries no error.
C29_SuccessOnlyAfterPublish ==
    \A i \in DOMAIN calls :
        (calls[i].op = "SendMessage" /\ IsSuccessPayload(calls[i].body)) =>
            /\ \E j \in 1..(i - 1) :
                 /\ calls[j].op = "PutObject"
                 /\ calls[j].ok
                 /\ calls[j].bucket = PayloadValue(calls[i].body, "file_bucket")
                 /\ calls[j].key = PayloadValue(calls[i].body, "file_key")
            /\ PayloadValue(calls[i].body, "process_id") = request.ProcessID
            /\ ~StorageFailedBefore(i)
            /\ validateRequest(request) = NoError
            /\ pvErr = NoError
            /\ result.Error = NoError

\* a success payload was sent for the archive that PutObject had stored
C29_Witness ==
    /\ pc = "return"
    /\ Count("SendMessage") = 1
    /\ IsSuccessPayload(Notifications[1].body)
    /\ PayloadValue(Notifications[1].body, "file_key") = OutputKey(request)
    /\ PayloadValue(Notifications[1].body, "file_bucket") = outputBucket
    /\ PublishSucceeded

\* ------------------------------------------------------ intake loop claims
\* the body of a queued message parses as a request
ParsesAsRequest(id) == Unmarshal(queue[id].body).err = NoError

\* C30: while the loop is about to issue the DeleteMessage for a message
\* whose body parses, Execute for it has returned and has made its
\* notification attempt; in the log every delete of such a message comes
\* directly after the return of its Execute, which reports that attempt.
C30_AcknowledgeAfterCompletion ==
    /\ (loop = "ack" /\ ParsesAsRequest(msg)) =>
           /\ pc = "done"
           /\ Count("SendMessage") = 1
    /\ \A l \in EventsOf("delete") :
           ParsesAsRequest(LoopEvents[l].id) =>
               /\ l > 1
               /\ LoopEvents[l - 1].ev = "execute_return"
               /\ LoopEvents[l - 1].id = LoopEvents[l].id
               /\ LoopEvents[l - 1].n = 1

\* a message went through Execute successfully and was deleted afterwards
C30_Witness ==
    \E l \in EventsOf("delete") :
        /\ l > 1
        /\ LoopEvents[l].ok
        /\ LoopEvents[l - 1] = Event("execute_return", LoopEvents[l].id, TRUE, 1)
        /\ queue[LoopEvents[l].id].state = "deleted"

\* Execute has returned after a successful PutObject and a failed send of
\* the success notification
PublishedButNotNotified ==
    /\ pc = "done"
    /\ PublishSucceeded
    /\ Count("SendMessage") = 1
    /\ ~Notifications[1].ok

ErrorEvents ==
    {i \in 1..Len(LoopEvents) :
        /\ LoopEvents[i].ev \in {"receive", "decode", "execute_return", "delete"}
        /\ ~LoopEvents[i].ok}

\* C32: the loop has left its polling loop only if a signal was delivered
\* and the loop took it from the channel as its last step; without a signal
\* it is still running, whatever errors it has met.
C32_ExitOnlyOnSignal ==
    /\ loop = "stopped" =>
           /\ SignalsAt # {}
           /\ Len(LoopEvents) > 0
           /\ LoopEvents[Len(LoopEvents)].ev = "shutdown"
           /\ ~running
    /\ SignalsAt = {} =>
           /\ running
           /\ loop # "stopped"
           /\ EventsOf("shutdown") = {}

\* a receive failed, an Execute returned an error and a delete failed, no
\* signal was delivered, and the loop is at its receive call again
C32_Witness ==
    /\ SignalsAt = {}
    /\ loop = "receive"
    /\ running
    /\ \E i, j, k \in ErrorEvents :
         /\ LoopEvents[i].ev = "receive"
         /\ LoopEvents[j].ev = "execute_return"
         /\ LoopEvents[k].ev = "delete"

\* the receive call the loop is about to issue lies beyond the polls that
\* are followed here
ReceiveNotFollowed == loop = "receive" /\ polls >= MaxPolls

\* C33: once a signal has been delivered, the loop eventually leaves its
\* polling loop, given that the receive call, the sleep, the calls inside
\* Execute and the delete all return.
C33_SignalLeadsToExit ==
    (SignalsAt # {} /\ ~ReceiveNotFollowed) ~> (loop = "stopped")

\* a signal was delivered while the loop was about to sleep after a failed
\* receive; the loop slept, took the signal and stopped
C33_Witness ==
    /\ loop = "stopped"
    /\ \E h \in SignalsAt :
         /\ h > 1
         /\ h + 2 = Len(events)
         /\ events[h - 1] = Event("receive", 0, FALSE, 0)
         /\ events[h + 1].ev = "sleep"
         /\ events[h + 2].ev = "shutdown"

\* the body of a queued message parses, but a required field is missing or
\* empty in the request it decodes to
LacksField(id) ==
    /\ ParsesAsRequest(id)
    /\ EmptyField(Unmarshal(queue[id].body).request)

\* C34: a message whose body parses but lacks a required field is decoded
\* and handed to Execute, not deleted as malformed; Execute calls neither
\* the storage nor the processor for it and returns an error after exactly
\* one failure notification, which carries the decoded process_id and the
\* text of the required-field error; the delete of the message follows.
C34_IncompleteRequestFailsValidation ==
    /\ \A i \in EventsOf("decode") :
           LacksField(LoopEvents[i].id) =>
               LET id == LoopEvents[i].id
                   last == Len(LoopEvents)
               IN  /\ LoopEvents[i].ok
                   /\ i + 1 <= last
                   /\ LoopEvents[i + 1] = Event("execute_start", id, TRUE, 0)
                   /\ i + 2 <= last =>
                          LoopEvents[i + 2] = Event("execute_return", id, FALSE, 1)
                   /\ i + 3 <= last => LoopEvents[i + 3].ev = "delete"
                   /\ i + 3 <= last => LoopEvents[i + 3].id = id
    /\ (loop \in {"dispatching", "ack"} /\ LacksField(msg)) =>
           /\ request = Unmarshal(queue[msg].body).request
           /\ NoStorageOrProcessorCall
           /\ pc = "done" =>
                  /\ OneFailureNotification
                  /\ PayloadValue(Notifications[1].body, "process_id") =
                         request.ProcessID
                  /\ PayloadValue(Notifications[1].body, "error_message") \in
                         {ErrorText(e) : e \in RequiredFieldErrors}
                  /\ returned # NoError

\* a message without video_bucket went through Execute, which sent the
\* failure notification with the decoded process_id; the delete is next
C34_Witness ==
    /\ loop = "ack"
    /\ LacksField(msg)
    /\ queue[msg].body.kind = "object"
    /\ OneFailureNotification
    /\ Notifications[1].ok
    /\ PayloadValue(Notifications[1].body, "process_id") = "p1"
    /\ returned = <<"video_bucket is required">>

\* the deletes that failed
FailedDeletes == {l \in EventsOf("delete") : ~LoopEvents[l].ok}

\* C35: after a failed DeleteMessage the loop's next step is the top of the
\* loop (the next receive, or the shutdown), never another delete; what the
\* loop records for the message is the outcome of the parse or of Execute,
\* whatever the delete did; and unless a later delivery of the message is
\* deleted successfully it stays in the queue, where a receive can return
\* it again.
C35_FailedDeleteIsNotRetried ==
    /\ \A l \in FailedDeletes :
           /\ l > 1
           /\ LoopEvents[l - 1].ev \in {"decode", "execute_return"}
           /\ LoopEvents[l - 1].id = LoopEvents[l].id
           /\ (LoopEvents[l].n = 1) = LoopEvents[l - 1].ok
           /\ l < Len(LoopEvents) =>
                  LoopEvents[l + 1].ev \in {"receive", "shutdown"}
           /\ l = Len(LoopEvents) => loop \in {"select", "receive"}
           /\ (\A k \in EventsOf("delete") :
                   (k > l /\ LoopEvents[k].id = LoopEvents[l].id) =>
                       ~LoopEvents[k].ok)
                  => LoopEvents[l].id \in Receivable
    /\ \A l \in EventsOf("delete") :
           LoopEvents[l].n = 1 =>
               LoopEvents[l - 1] =
                   Event("execute_return", LoopEvents[l].id, TRUE, 1)

\* the delete of a message failed; the message was received again, went
\* through Execute a second time and caused a second notification
C35_Witness ==
    \E l \in FailedDeletes :
        /\ l + 1 <= Len(LoopEvents)
        /\ LoopEvents[l - 1].ev = "execute_return"
        /\ LoopEvents[l + 1] = Event("receive", LoopEvents[l].id, TRUE, 1)
        /\ loop = "ack"
        /\ msg = LoopEvents[l].id
        /\ pc = "done"
        /\ Count("SendMessage") = 1

\* C36: every SendMessage of Execute, with a success or a failure payload, is
\* addressed to the configured output queue and carries the process_id of
\* the request being executed; every DeleteObject of Execute names the
\* bucket and the key of that request.
C36_CallsNameTheRequest ==
    \A i \in DOMAIN calls :
        /\ calls[i].op = "SendMessage" =>
               /\ calls[i].queueURL = OutputQueueURL
               /\ IsSuccessPayload(calls[i].body) \/ IsFailurePayload(calls[i].body)
               /\ PayloadValue(calls[i].body, "process_id") = request.ProcessID
        /\ calls[i].op = "DeleteObject" =>
               calls[i] = [op |-> "DeleteObject", bucket |-> request.VideoBucket,
                           key |-> request.VideoKey, ok |-> calls[i].ok]

\* a second invocation, for another request than the first, deleted its
\* source object from a bucket other than the output bucket and sent its
\* success notification
C36_Witness ==
    /\ invocations = 2
    /\ request.ProcessID = "p2"
    /\ request.VideoBucket # outputBucket
    /\ Count("DeleteObject") = 1
    /\ Count("SendMessage") = 1
    /\ IsSuccessPayload(Notifications[1].body)

\* the error of the first check, in the order process_id, video_bucket,
\* video_key, extension, that the request fails; nil when it fails none
FirstFailingCheck(req) ==
    CASE req.ProcessID = "" -> <<"process_id is required">>
      [] req.ProcessID # "" /\ req.VideoBucket = "" ->
             <<"video_bucket is required">>
      [] req.ProcessID # "" /\ req.VideoBucket # "" /\ req.VideoKey = <<>> ->
             <<"video_key is required">>
      [] req.ProcessID # "" /\ req.VideoBucket # "" /\ req.VideoKey # <<>>
           /\ Extension(req.VideoKey) \notin AllowedExtensions ->
             <<"invalid video file format. Supported: mp4, avi, mov, mkv, wmv, flv, webm">>
      [] OTHER -> NoError

\* C37: validateRequest returns the error of the earliest failing check in
\* the order process_id, video_bucket, video_key, extension, and nil for a
\* request with the three fields non-empty and an extension of the list;
\* once Execute has validated its request, that error and no other is the
\* one in the result, and the download starts only when there is none.
C37_FirstFailingCheckOnly ==
    pc \notin {"start", "idle"} =>
        /\ validateRequest(request) = FirstFailingCheck(request)
        /\ (Count("GetObject") = 0 /\ pc # "download") =>
               result.Error = FirstFailingCheck(request)
        /\ (FirstFailingCheck(request) = NoError) =
               (Count("GetObject") = 1 \/ pc = "download")

\* a request with all three fields empty was validated and the result
\* carries the process_id error, not one of the other two
C37_Witness ==
    /\ pc = "send_error"
    /\ request.ProcessID = ""
    /\ request.VideoBucket = ""
    /\ request.VideoKey = <<>>
    /\ result.Error = <<"process_id is required">>

\* FFmpegVideoProcessor.ProcessVideo has returned to Execute
FFmpegReturned == pc = "process_result" /\ processor = "ffmpeg"

\* ProcessVideo is running, or returning, with the zero-frames error
ZeroFramesStep ==
    /\ processor = "ffmpeg"
    /\ pc \in {"process", "process_return"}
    /\ pvErr' = <<"no frames extracted from video">>

\* C38: FFmpegVideoProcessor.ProcessVideo returns either a non-empty archive
\* path with a frame count of at least one and no error, or the empty path
\* with a count of zero and an error; and a call that ends with the
\* zero-frames error creates no archive file.
C38_NoEmptySuccess ==
    /\ [](FFmpegReturned =>
            \/ zipPath # <<>> /\ frameCount >= 1 /\ pvErr = NoError
            \/ zipPath = <<>> /\ frameCount = 0 /\ pvErr # NoError)
    /\ [][ZeroFramesStep =>
            /\ (ArchiveFile \in files') = (ArchiveFile \in files)
            /\ zipPath' = <<>>
            /\ frameCount' = 0]_vars

\* ffmpeg ran without error and wrote no frame: ProcessVideo returned the
\* zero-frames error and there is no archive file
C38_Witness ==
    /\ FFmpegReturned
    /\ pvErr = <<"no frames extracted from video">>
    /\ zipPath = <<>>
    /\ ArchiveFile \notin files

\* C39: when a method of the StorageAdapter or of the MessageAdapter has
\* returned, the service method of the same name was invoked exactly once,
\* with the arguments the adapter was called with, and the adapter returned
\* the value and the very error of that invocation.
C39_AdaptersAreTransparent ==
    adapter.pc = "returned" =>
        /\ Len(adapter.service) = 1
        /\ adapter.service[1].method = adapter.method
        /\ adapter.service[1].args = adapter.args
        /\ adapter.ret = <<adapter.service[1].value, adapter.service[1].err>>

\* PutObject of the StorageAdapter returned the wrapped error its service
\* returned, on the second adapter call
C39_Witness ==
    /\ adapter.pc = "returned"
    /\ adapter.count = 2
    /\ adapter.method = "PutObject"
    /\ adapter.service[1].err = <<"send failed", "timeout">>
    /\ adapter.ret[2] = <<"send failed", "timeout">>

\* C40: when FFmpegVideoProcessor.ProcessVideo has returned, neither its
\* frame directory nor any frame image in it exists, and its archive file
\* exists only if it returned without error.
C40_OnlyTheArchiveOnlyOnSuccess ==
    FFmpegReturned =>
        /\ RemoveAll(files, ProcessDir) = files
        /\ ArchiveFile \in files => pvErr = NoError

====
